---- MODULE Spec2Model ----
(***************************************************************************)
(* Grid-expansion search and deduplication engine of Rosey-Automated-Leads *)
(* (src/app.py get_businesses, src/utils/radius_utils.py                   *)
(* perform_grid_search, src/utils/pagination.py                            *)
(* fetch_places_paginated_generic), modelled as a state machine.           *)
(***************************************************************************)
EXTENDS Integers, Sequences, FiniteSets, TLC

(***************************************************************************)
(* Bounds of the model.                                                    *)
(***************************************************************************)
\* get_businesses calls explored in one session
MaxCalls == 2
\* distinct sparse-area places the upstream can return (ids 1..NumPlaces)
NumPlaces == 2
\* longest grid-point list handed to perform_grid_search
MaxGridPoints == 2
\* non-empty result pages of sparse areas the upstream delivers in one session
MaxHits == 2
\* standalone fetch_places_paginated_generic runs explored
MaxRuns == 2
\* standalone safe_request calls explored
MaxRequests == 2
\* largest retries argument handed to safe_request
MaxRetries == 3
\* standalone make_api_request_with_retry calls explored
MaxApiCalls == 1
\* standalone get_coordinates calls explored
MaxGeocodeCalls == 2
\* rows handed to safe_append by the save loop
MaxRows == 3
\* retry_failed_rows calls explored
MaxRetryPasses == 2

(***************************************************************************)
(* Program constants.                                                      *)
(***************************************************************************)
GRID_SEARCH_THRESHOLD == 55
MAX_PAGES_TO_FETCH == 3
MAX_RESULTS_PER_QUERY == 60
RESULTS_PER_PAGE == 20
MAX_PAGES == MAX_RESULTS_PER_QUERY \div RESULTS_PER_PAGE
PAGE_TOKEN_DELAY_SECONDS == 2
\* the argument of time.sleep in the controller's pagination loop
DIRECT_PAGE_DELAY_SECONDS == 2

\* synonym table: the entries of INDUSTRY_SYNONYMS the inputs below can hit
INDUSTRY_SYNONYMS == [hotel |-> <<"inn">>]

(***************************************************************************)
(* Sequences helpers.                                                      *)
(***************************************************************************)
Range(s) == {s[i] : i \in 1..Len(s)}

Take(s, n) == SubSeq(s, 1, n)

\* place_ids of a list of place records or of leads
IdsOf(s) == {s[i].place_id : i \in 1..Len(s)}

\* number of entries of s carrying place id p
CountId(s, p) == Cardinality({i \in 1..Len(s) : s[i].place_id = p})

RECURSIVE Flatten(_)
Flatten(ss) == IF ss = <<>> THEN <<>> ELSE Head(ss) \o Flatten(Tail(ss))

(***************************************************************************)
(* Upstream data: place records, search responses, details responses.      *)
(***************************************************************************)
\* place.get('place_id', '') of a record that carries no place_id
NoPlaceId == 0

PlaceIds == 1..NumPlaces

\* a textsearch result record: its place_id and whether it carries the
\* formatted_phone_number / website keys
Place(i) == [place_id |-> i, has_phone |-> i >= 3, has_website |-> i >= 2]

\* a full page of RESULTS_PER_PAGE records of a dense area, page p of a query
FullPage(p) == [k \in 1..RESULTS_PER_PAGE |-> Place(NumPlaces + (p - 1) * RESULTS_PER_PAGE + k)]

\* safe_request returned None
NoneResponse == [none |-> TRUE, status |-> "NONE", results |-> <<>>, token |-> FALSE]

Response(st, rs, tok) == [none |-> FALSE, status |-> st, results |-> rs, token |-> tok]

\* result lists of a sparse area: nothing, or one known place
SparsePages == {<<>>} \cup {<<Place(i)>> : i \in PlaceIds}

\* result lists of a dense area for page p: a full page, and on the last page
\* the two lists that put the total just at and just below the threshold
DensePages(p) ==
    {FullPage(p)} \cup
    (IF p = MAX_PAGES_TO_FETCH
       THEN {Take(FullPage(p), GRID_SEARCH_THRESHOLD - (p - 1) * RESULTS_PER_PAGE),
             Take(FullPage(p), GRID_SEARCH_THRESHOLD - (p - 1) * RESULTS_PER_PAGE - 1)}
       ELSE {})

\* the query whose area is dense: its direct pages are full
DenseQuery(keyword, location) == keyword = "bank" /\ location = "Belfast"

\* what safe_request can return for direct page p of a query: None, pages of
\* the dense area, or pages of a sparse area while fewer than MaxHits non-empty
\* pages were delivered (h) in this session
DirectResponses(p, h, dense) ==
    {NoneResponse} \cup
    {Response("OK", rs, tok) :
        rs \in IF dense THEN DensePages(p)
               ELSE {r \in SparsePages : r = <<>> \/ h < MaxHits},
        tok \in BOOLEAN}

\* result lists handed to a standalone fetch run: up to two records, a place
\* may repeat and a record may lack its place_id
RepeatPages ==
    {<<>>} \cup {<<Place(i)>> : i \in PlaceIds \cup {NoPlaceId}} \cup
    {<<Place(i), Place(j)>> : i \in PlaceIds \cup {NoPlaceId}, j \in PlaceIds \cup {NoPlaceId}}

\* what safe_request can return to a fetch run for its page p: to a standalone
\* run (pages that repeat places, or a full page; any status on any page, and
\* a ZERO_RESULTS response may carry a next_page_token), or to a grid-point
\* run when h non-empty pages were already delivered in this session (ZERO_RESULTS to the
\* query, INVALID_REQUEST to a continuation token)
FetchResponses(standalone, h, p) ==
    {NoneResponse} \cup
    {Response("OK", rs, tok) :
        rs \in IF standalone THEN RepeatPages \cup {FullPage(p)}
               ELSE {r \in SparsePages : r = <<>> \/ h < MaxHits},
        tok \in BOOLEAN} \cup
    (IF standalone
       THEN {Response("ZERO_RESULTS", <<>>, tok) : tok \in BOOLEAN} \cup
            {Response("INVALID_REQUEST", <<>>, FALSE)}
       ELSE IF p = 1 THEN {Response("ZERO_RESULTS", <<>>, FALSE)}
                     ELSE {Response("INVALID_REQUEST", <<>>, FALSE)})

\* one safe_request call of a paginated run as the run saw it: whether the URL
\* carried a pagetoken, the seconds slept since the previous response, the
\* status of the response ("NONE" when safe_request returned None) and whether
\* it carried a next_page_token
Request(pagetoken, slept, resp) ==
    [pagetoken |-> pagetoken, slept |-> slept, status |-> resp.status,
     token |-> resp.token]

\* what the details lookup can return: None, or a result with both fields
NoDetails == [none |-> TRUE, has_phone |-> FALSE, has_website |-> FALSE]

DetailsResponses == {NoDetails, [none |-> FALSE, has_phone |-> TRUE, has_website |-> TRUE]}

(***************************************************************************)
(* Inputs of get_businesses.                                               *)
(***************************************************************************)
IndustryInputs == {<<>>, <<"hotel">>, <<"bank", "hotel">>}

\* search_target: a manual string, a list of locations, or neither (None, a
\* tuple)
TargetInputs ==
    {[kind |-> "str", locs |-> <<"Omagh">>],
     [kind |-> "str", locs |-> <<>>],
     [kind |-> "list", locs |-> <<"Belfast", "Omagh">>],
     [kind |-> "other", locs |-> <<>>],
     [kind |-> "other", locs |-> <<"Omagh">>]}

\* grid_cell_radius_km from the slider
RadiusInputs == {0, 1}

(***************************************************************************)
(* Decisions of the code, as operators.                                    *)
(***************************************************************************)
ExpandKeywords_SynonymsFirst(industry) ==
    IF industry \in DOMAIN INDUSTRY_SYNONYMS
      THEN INDUSTRY_SYNONYMS[industry] \o <<industry>>
      ELSE <<industry>>

\* app.py:228-231
ExpandKeywords(industry) ==
    IF industry \in DOMAIN INDUSTRY_SYNONYMS
      THEN <<industry>> \o INDUSTRY_SYNONYMS[industry]
      ELSE <<industry>>

ValidInput_NoTypeCheck(inds, target) ==
    /\ inds # <<>>
    /\ target.locs # <<>>

\* app.py:178-209: the call proceeds past the initial checks
ValidInput(inds, target) ==
    /\ inds # <<>>
    /\ target.locs # <<>>
    /\ target.kind \in {"str", "list"}

DirectLoopCond_OffByOne(tok, page) == tok /\ page <= MAX_PAGES_TO_FETCH

\* app.py:274
DirectLoopCond(tok, page) == tok /\ page < MAX_PAGES_TO_FETCH

NeedsGrid_Inclusive(n) == n <= GRID_SEARCH_THRESHOLD

\* app.py:296
NeedsGrid(n) == n < GRID_SEARCH_THRESHOLD

RadiusRejected_ZeroAllowed(search_radius_meters) == search_radius_meters < 0

\* radius_utils.py:48: if search_radius_meters <= 0
RadiusRejected(search_radius_meters) == search_radius_meters <= 0

\* radius_utils.py:48-72, as far as the searches depend on it: no point for a
\* non-positive radius, otherwise the list as the loops append it, the center
\* (ring 0) and then the points of the rings, n points in all
GridPointsFor(radius, n) ==
    IF RadiusRejected(radius * 1000) THEN <<>>
    ELSE [k \in 1..n |-> IF k = 1 THEN [ring |-> 0, j |-> 0]
                                  ELSE [ring |-> 1, j |-> k - 2]]

\* radius_utils.py:74-75: the points go through a set of rounded coordinates
\* and list(set) returns them in the iteration order of the set, which is the
\* order of the hashes of the coordinates and not the order of insertion
GridOrders(points) ==
    {order \in [1..Len(points) -> Range(points)] : Range(order) = Range(points)}

GridIsNew_NoProcessedCheck(place_id, processed_set) == place_id # NoPlaceId

\* radius_utils.py:129
GridIsNew(place_id, processed_set) ==
    place_id # NoPlaceId /\ place_id \notin processed_set

FetchIsNew_NoSeenCheck(place_id, seen) == place_id # NoPlaceId

\* pagination.py:68 and :106
FetchIsNew(place_id, seen) == place_id # NoPlaceId /\ place_id \notin seen

IsNewPlace_BlockOnly(place_id, processed_set, ids_added) ==
    place_id # NoPlaceId /\ place_id \notin ids_added

\* app.py:362
IsNewPlace(place_id, processed_set, ids_added) ==
    /\ place_id # NoPlaceId
    /\ place_id \notin processed_set
    /\ place_id \notin ids_added

NeedsDetails_BothMissing(place) == ~place.has_phone /\ ~place.has_website

\* app.py:367
NeedsDetails(place) == ~(place.has_phone /\ place.has_website)

FieldValue_DetailsOnly(in_details, in_place) ==
    IF in_details THEN "details" ELSE "N/A"

\* app.py:376-396: the value of one optional field of the lead
FieldValue(in_details, in_place) ==
    IF in_details THEN "details" ELSE IF in_place THEN "search" ELSE "N/A"

LeadType_Keyword(industry, current_keyword) == current_keyword

\* app.py:385
LeadType(industry, current_keyword) == industry

\* app.py:376-396
MakeLead(place, details, industry, current_keyword) ==
    [place_id |-> place.place_id,
     business_type |-> LeadType(industry, current_keyword),
     phone_number |-> FieldValue(~details.none /\ details.has_phone, place.has_phone),
     website |-> FieldValue(~details.none /\ details.has_website, place.has_website)]

\* pagination.py:66-70 / 104-109: one page merged into the run's list
RECURSIVE FetchMerge(_, _, _)
FetchMerge(acc, seen, page) ==
    IF page = <<>> THEN [results |-> acc, ids |-> seen]
    ELSE IF FetchIsNew(Head(page).place_id, seen)
      THEN FetchMerge(Append(acc, Head(page)), seen \cup {Head(page).place_id}, Tail(page))
      ELSE FetchMerge(acc, seen, Tail(page))

\* radius_utils.py:127-132: one point's results merged into the grid results
RECURSIVE GridMerge(_, _, _)
GridMerge(acc, processed_set, rs) ==
    IF rs = <<>> THEN [results |-> acc, processed |-> processed_set]
    ELSE IF GridIsNew(Head(rs).place_id, processed_set)
      THEN GridMerge(Append(acc, Head(rs)), processed_set \cup {Head(rs).place_id}, Tail(rs))
      ELSE GridMerge(acc, processed_set, Tail(rs))

SessionSetAtCall_Fresh(processed) == {}

\* app.py:55-56, 217-218: the set is created only when the session has none,
\* and a call works on the session's set itself, not on a copy
SessionSetAtCall(processed) == processed

GridLoopCond_UntilFound(found, i, n) == i <= n /\ found = <<>>

\* radius_utils.py:105: the loop over the grid points goes on
GridLoopCond(found, i, n) == i <= n

GridNextPoint_AbortOnFailure(i, failed, n) == IF failed THEN n + 1 ELSE i + 1

\* radius_utils.py:105, 134-135: the point the loop turns to after point i,
\* whose fetch failed or not
GridNextPoint(i, failed, n) == i + 1

GridPointResult_SetUntouched(acc, processed_set, none, rs) ==
    IF none THEN [results |-> acc, processed |-> processed_set]
    ELSE [results |-> GridMerge(acc, processed_set, rs).results,
          processed |-> processed_set]

\* radius_utils.py:125-137: the grid results and the session set after the
\* results of one point, a failed fetch (None) leaving both as they are
GridPointResult(acc, processed_set, none, rs) ==
    IF none THEN [results |-> acc, processed |-> processed_set]
    ELSE GridMerge(acc, processed_set, rs)

\* radius_utils.py:96-143: perform_grid_search on the fetch outcomes of its
\* points, from point i on
RECURSIVE GridSearchFrom(_, _, _, _)
GridSearchFrom(acc, processed_set, fetched, i) ==
    IF ~GridLoopCond(acc, i, Len(fetched))
      THEN [results |-> acc, processed |-> processed_set]
      ELSE LET m == GridPointResult(acc, processed_set, fetched[i].none,
                                    fetched[i].results)
           IN GridSearchFrom(m.results, m.processed, fetched,
                             GridNextPoint(i, fetched[i].none, Len(fetched)))

\* what one fetch run can hand to perform_grid_search: None, or a list
\* without repeated place
FetchOutcomes ==
    {[none |-> TRUE, results |-> <<>>]} \cup
    {[none |-> FALSE, results |-> FetchMerge(<<>>, {}, page).results] : page \in RepeatPages}


FetchStatusOk_ZeroResultsToo(status) == status \in {"OK", "ZERO_RESULTS"}

\* pagination.py:65 and :103: the page's records are merged
FetchStatusOk(status) == status = "OK"

FetchReturnsNone_AnyPage(first_page, resp) ==
    resp.none \/ resp.status \notin {"OK", "ZERO_RESULTS"}

\* pagination.py:58-60, 73-79, 95-97, 117-126: a failed response makes the run
\* return None only when it answers the initial request
FetchReturnsNone(first_page, resp) ==
    first_page /\ (resp.none \/ resp.status \notin {"OK", "ZERO_RESULTS"})

FetchDelayBefore_NoSleep(pagetoken) == 0

\* pagination.py:87: the seconds slept before a request
FetchDelayBefore(pagetoken) == IF pagetoken THEN PAGE_TOKEN_DELAY_SECONDS ELSE 0

DirectDelayBefore_NoSleep(pagetoken) == 0

\* app.py:276: the seconds slept before a request of the direct loop
DirectDelayBefore(pagetoken) == IF pagetoken THEN DIRECT_PAGE_DELAY_SECONDS ELSE 0

\* app.py:266: the keyword the loop turns to after a failed initial request
KeywordAfterFailure(kw, n) == kw + 1

(***************************************************************************)
(* State.                                                                  *)
(***************************************************************************)
VARIABLES
    \* st.session_state.processed_businesses and what the caller received
    processed_businesses, returned_ids, calls,
    \* get_businesses: arguments, position, locals
    pc, industries, search_target, grid_cell_radius_km,
    businesses, loc_i, ind_i, kw_i, search_keywords, current_keyword,
    all_results_for_industry_and_variants,
    all_page_results, current_page, next_page_token,
    place_i, ids_added_this_industry_block,
    \* perform_grid_search: arguments, position, locals
    grid_points, gp_i, all_new_grid_results,
    \* fetch_places_paginated_generic: position, locals, return value
    fpc, all_results_this_run, seen_place_ids_this_run, f_current_page,
    f_next_page_token, fetch_none, runs,
    \* the safe_request calls of the running direct pagination and fetch run
    page_requests, f_requests,
    \* history of the running perform_grid_search call: the session set at its
    \* start, the ids its fetch runs returned, the fetch runs that returned
    \* None, the ids a point returned after an earlier point had claimed them
    grid_processed_before, grid_found, grid_failures, grid_repeats,
    \* perform_grid_search on its own: the arguments and fetch outcomes of a
    \* call, its result, and its result on another order of the points
    order_in, order_out, order_out_permuted,
    \* safe_request: position, arguments, loop counter, return value, and
    \* the attempts made (status received, hundredths of a second slept after)
    sr_pc, sr_args, attempt, sr_result, sr_attempts, sr_calls,
    \* make_api_request_with_retry: position, whether the API key is set, loop
    \* counter, backoff in seconds, return value, and the attempts made
    \* (outcome, hundredths of a second slept after)
    api_pc, api_key, api_attempt, current_backoff, api_result, api_attempts,
    api_calls,
    \* generate_grid_points: the arguments of a call and its return value
    gen_in, gen_out,
    \* get_coordinates: position, the answer to its request, return value,
    \* requests made by the running call
    geo_pc, geo_response, geo_result, geo_requests, geo_calls,
    \* the sheet layer: st.session_state.failed_rows, the content of
    \* failed_rows.json, the rows appended to the sheet
    failed_rows, failed_rows_json, sheet_rows,
    \* safe_append: position, caller, arguments, loop counter, return value,
    \* and the queue and the number of sheet rows when it was called
    sa_pc, sa_caller, sa_row, sa_retries, sa_attempt, sa_result,
    sa_failed_before, sa_sheet_before,
    \* retry_failed_rows: position, its local copy of the queue, loop index,
    \* success_count, and the queue and the number of sheet rows when it was
    \* called
    rq_pc, retry_rows, sheet, rq_i, success_count, queue_before, sheet_before,
    \* rows created and retry passes made so far
    next_row, rq_calls,
    \* history kept for the properties: of the call, of the industry block,
    \* of the keyword, of the last step, of the fetch run
    hits, processed_at_start, attempted, first_page_failed,
    pool_origin, page_origin,
    direct_count, geocode_requests, grid_fetches,
    last_details, raw_pages

sessionVars == <<processed_businesses, returned_ids, calls>>

argVars == <<industries, search_target, grid_cell_radius_km>>

loopVars == <<loc_i, ind_i, kw_i, search_keywords, current_keyword>>

pageVars == <<all_page_results, current_page, next_page_token, page_requests>>

processVars == <<place_i, ids_added_this_industry_block>>

gridVars == <<grid_points, gp_i, all_new_grid_results, grid_processed_before,
              grid_found, grid_failures, grid_repeats>>

orderVars == <<order_in, order_out, order_out_permuted>>

requestVars == <<sr_pc, sr_args, attempt, sr_result, sr_attempts, sr_calls>>

apiVars == <<api_pc, api_key, api_attempt, current_backoff, api_result,
             api_attempts, api_calls>>

\* the helpers modelled on their own
generatorVars == <<gen_in, gen_out>>

geocodeVars == <<geo_pc, geo_response, geo_result, geo_requests, geo_calls>>

queueVars == <<failed_rows, failed_rows_json, sheet_rows,
               sa_pc, sa_caller, sa_row, sa_retries, sa_attempt, sa_result,
               sa_failed_before, sa_sheet_before,
               rq_pc, retry_rows, sheet, rq_i, success_count, queue_before,
               sheet_before, next_row, rq_calls>>

helperVars == <<apiVars, generatorVars, geocodeVars, queueVars>>

fetchVars == <<fpc, all_results_this_run, seen_place_ids_this_run, f_current_page,
               f_next_page_token, fetch_none, raw_pages, f_requests>>

keywordHistory == <<direct_count, geocode_requests, grid_fetches>>

callHistory == <<processed_at_start, attempted, first_page_failed>>

originHistory == <<pool_origin, page_origin>>

vars == <<sessionVars, pc, argVars, businesses, loopVars,
          all_results_for_industry_and_variants, pageVars, processVars,
          gridVars, fetchVars, runs, hits, keywordHistory, callHistory,
          originHistory, last_details, orderVars, requestVars, helperVars>>

\* the locals of get_businesses before a call and after its return
IdleLocals ==
    /\ industries = <<>>
    /\ search_target = [kind |-> "other", locs |-> <<>>]
    /\ grid_cell_radius_km = 0
    /\ businesses = <<>>
    /\ loc_i = 1 /\ ind_i = 1 /\ kw_i = 1
    /\ search_keywords = <<>>
    /\ current_keyword = ""
    /\ all_results_for_industry_and_variants = <<>>
    /\ all_page_results = <<>> /\ current_page = 0 /\ next_page_token = FALSE
    /\ page_requests = <<>>
    /\ place_i = 1 /\ ids_added_this_industry_block = {}
    /\ grid_points = <<>> /\ gp_i = 1 /\ all_new_grid_results = <<>>
    /\ grid_processed_before = {} /\ grid_found = {}
    /\ grid_failures = 0 /\ grid_repeats = {}

\* the locals of fetch_places_paginated_generic outside a run
IdleFetch ==
    /\ fpc = "idle"
    /\ all_results_this_run = <<>>
    /\ seen_place_ids_this_run = {}
    /\ f_current_page = 0
    /\ f_next_page_token = FALSE
    /\ fetch_none = FALSE
    /\ raw_pages = <<>>
    /\ f_requests = <<>>

Init ==
    /\ processed_businesses = {}
    /\ returned_ids = {}
    /\ calls = 0
    /\ pc = "idle"
    /\ IdleLocals
    /\ IdleFetch
    /\ runs = 0
    /\ hits = 0
    /\ processed_at_start = {}
    /\ attempted = {}
    /\ first_page_failed = FALSE
    /\ pool_origin = <<>>
    /\ page_origin = <<>>
    /\ direct_count = 0
    /\ geocode_requests = 0
    /\ grid_fetches = 0
    /\ last_details = "none yet"
    /\ order_in = [called |-> FALSE, processed |-> {}, fetched |-> <<>>, order |-> <<>>]
    /\ order_out = [results |-> <<>>, processed |-> {}]
    /\ order_out_permuted = [results |-> <<>>, processed |-> {}]
    /\ sr_pc = "idle"
    /\ sr_args = [retries |-> 0, initial_delay |-> 0, max_delay |-> 0]
    /\ attempt = 0
    /\ sr_result = "none yet"
    /\ sr_attempts = <<>>
    /\ sr_calls = 0
    /\ api_pc = "idle"
    /\ api_key = TRUE
    /\ api_attempt = 0
    /\ current_backoff = 0
    /\ api_result = "none yet"
    /\ api_attempts = <<>>
    /\ api_calls = 0
    /\ gen_in = [called |-> FALSE, center_lat |-> 0, center_lon |-> 0,
                 city_radius_meters |-> 0, search_radius_meters |-> 0]
    /\ gen_out = [center |-> <<>>, rings |-> {}]
    /\ geo_pc = "idle"
    /\ geo_response = [kind |-> "none yet", status |-> "", results |-> <<>>]
    /\ geo_result = [kind |-> "none yet", lat |-> 0, lng |-> 0]
    /\ geo_requests = 0
    /\ geo_calls = 0
    /\ failed_rows = <<>>
    /\ failed_rows_json = <<>>
    /\ sheet_rows = <<>>
    /\ sa_pc = "idle" /\ sa_caller = "" /\ sa_row = 0 /\ sa_retries = 0
    /\ sa_attempt = 0 /\ sa_result = "none yet"
    /\ sa_failed_before = <<>> /\ sa_sheet_before = 0
    /\ rq_pc = "idle" /\ retry_rows = <<>> /\ sheet = "none yet"
    /\ rq_i = 1 /\ success_count = 0
    /\ queue_before = <<>> /\ sheet_before = 0
    /\ next_row = 1
    /\ rq_calls = 0


(***************************************************************************)
(* get_businesses (src/app.py:160-412).                                    *)
(***************************************************************************)
\* the industry and location of the running loop iteration
industry == industries[ind_i]

location == search_target.locs[loc_i]

\* every (location, industry, keyword variant) unit of a call's arguments
AllUnits(inds, locs) ==
    UNION {{<<l, i, k>> : k \in 1..Len(ExpandKeywords(inds[i]))} :
              l \in 1..Len(locs), i \in 1..Len(inds)}

\* n origin tags: how a result entered the pool and for which keyword variant
Tags(n, src, kw) == [k \in 1..n |-> [src |-> src, keyword |-> kw]]

\* app.py:160-218: the call, its initial checks, the start of the loops
GetBusinesses(inds, target, radius) ==
    /\ pc = "idle"
    /\ fpc \in {"idle", "done"}
    /\ calls < MaxCalls
    /\ calls' = calls + 1
    /\ fpc' = "idle" /\ all_results_this_run' = <<>> /\ seen_place_ids_this_run' = {}
    /\ f_current_page' = 0 /\ f_next_page_token' = FALSE /\ fetch_none' = FALSE
    /\ raw_pages' = <<>> /\ f_requests' = <<>>
    /\ industries' = inds
    /\ search_target' = target
    /\ grid_cell_radius_km' = radius
    /\ processed_at_start' = processed_businesses
    /\ pc' = IF ValidInput(inds, target) THEN "block" ELSE "rejected"
    /\ processed_businesses' = SessionSetAtCall(processed_businesses)
    /\ UNCHANGED <<helperVars, returned_ids, businesses, loopVars,
                   all_results_for_industry_and_variants, pageVars, processVars,
                   gridVars, runs, orderVars, requestVars, hits, keywordHistory, attempted,
                   first_page_failed, originHistory, last_details>>

\* app.py:221-235: one (location, industry) iteration starts
BeginIndustry ==
    /\ pc = "block"
    /\ search_keywords' = ExpandKeywords(industry)
    /\ all_results_for_industry_and_variants' = <<>>
    /\ kw_i' = 1
    /\ pc' = "keyword"
    /\ UNCHANGED <<helperVars, sessionVars, argVars, businesses, loc_i, ind_i, current_keyword,
                   pageVars, processVars, gridVars, fetchVars, runs, orderVars, requestVars, hits,
                   keywordHistory, callHistory, originHistory, last_details>>

\* app.py:221-222, 403-412: the loops move to the next industry or location,
\* or the function reaches its return statement
EndBlock ==
    IF ind_i < Len(industries)
      THEN ind_i' = ind_i + 1 /\ loc_i' = loc_i /\ pc' = "block"
      ELSE IF loc_i < Len(search_target.locs)
        THEN ind_i' = 1 /\ loc_i' = loc_i + 1 /\ pc' = "block"
        ELSE ind_i' = ind_i /\ loc_i' = loc_i /\ pc' = "return"

\* app.py:238-272: a keyword variant starts, the first page is requested
DirectFirstPage ==
    /\ pc = "keyword"
    /\ kw_i <= Len(search_keywords)
    /\ current_keyword' = search_keywords[kw_i]
    /\ attempted' = attempted \cup {<<loc_i, ind_i, kw_i>>}
    /\ \E data \in DirectResponses(1, hits, DenseQuery(search_keywords[kw_i], location)) :
         IF data.none
           THEN /\ first_page_failed' = TRUE
                /\ kw_i' = KeywordAfterFailure(kw_i, Len(search_keywords))
                /\ UNCHANGED <<pc, hits, pageVars, page_origin>>
           ELSE /\ all_page_results' = data.results
                /\ page_requests' = <<Request(FALSE, DirectDelayBefore(FALSE), data)>>
                /\ page_origin' = Tags(Len(data.results), "direct", search_keywords[kw_i])
                /\ next_page_token' = data.token
                /\ current_page' = 1
                /\ hits' = IF data.results = <<>> THEN hits ELSE hits + 1
                /\ pc' = IF DirectLoopCond(data.token, 1) THEN "paginate" ELSE "fallback"
                /\ UNCHANGED <<first_page_failed, kw_i>>
    /\ UNCHANGED <<helperVars, sessionVars, argVars, businesses, loc_i, ind_i, search_keywords,
                   all_results_for_industry_and_variants, processVars, gridVars,
                   fetchVars, runs, orderVars, requestVars, keywordHistory, processed_at_start, pool_origin,
                   last_details>>

\* app.py:274-289: one iteration of the direct pagination loop
DirectNextPage ==
    /\ pc = "paginate"
    /\ \E data \in DirectResponses(current_page + 1, hits,
                                   DenseQuery(current_keyword, location)) :
         IF data.none
           THEN /\ pc' = "fallback"
                /\ page_requests' =
                     Append(page_requests, Request(TRUE, DirectDelayBefore(TRUE), data))
                /\ UNCHANGED <<all_page_results, current_page, next_page_token,
                               hits, page_origin>>
           ELSE /\ all_page_results' = all_page_results \o data.results
                /\ page_requests' =
                     Append(page_requests, Request(TRUE, DirectDelayBefore(TRUE), data))
                /\ page_origin' = page_origin \o Tags(Len(data.results), "direct", current_keyword)
                /\ next_page_token' = data.token
                /\ current_page' = current_page + 1
                /\ hits' = IF data.results = <<>> THEN hits ELSE hits + 1
                /\ pc' = IF data.results = <<>> /\ data.token
                           THEN "fallback"
                           ELSE IF DirectLoopCond(data.token, current_page + 1)
                                  THEN "paginate" ELSE "fallback"
    /\ UNCHANGED <<helperVars, sessionVars, argVars, businesses, loopVars,
                   all_results_for_industry_and_variants, processVars, gridVars,
                   fetchVars, runs, orderVars, requestVars, keywordHistory, callHistory, pool_origin,
                   last_details>>

\* app.py:294-343: the threshold decision, geocoding, grid generation
GridSearchFallback ==
    /\ pc = "fallback"
    /\ direct_count' = Len(all_page_results)
    /\ IF NeedsGrid(Len(all_page_results))
         THEN \E coords_ok \in BOOLEAN, n \in 1..MaxGridPoints :
                /\ geocode_requests' = geocode_requests + 1
                /\ IF coords_ok /\ GridPointsFor(grid_cell_radius_km, n) # <<>>
                     THEN /\ grid_points' \in GridOrders(GridPointsFor(grid_cell_radius_km, n))
                          /\ gp_i' = 1
                          /\ all_new_grid_results' = <<>>
                          /\ grid_processed_before' = processed_businesses
                          /\ UNCHANGED <<grid_found, grid_failures, grid_repeats>>
                          /\ pc' = "grid"
                          /\ UNCHANGED page_origin
                     ELSE /\ pc' = "accumulate"
                          /\ page_origin' =
                               IF coords_ok THEN page_origin
                               ELSE Tags(Len(all_page_results), "direct, geocoding failed",
                                         current_keyword)
                          /\ UNCHANGED gridVars
         ELSE /\ pc' = "accumulate"
              /\ UNCHANGED <<geocode_requests, page_origin, gridVars>>
    /\ UNCHANGED <<helperVars, sessionVars, argVars, businesses, loopVars,
                   all_results_for_industry_and_variants, pageVars, processVars,
                   fetchVars, runs, orderVars, requestVars, hits, grid_fetches, callHistory, pool_origin,
                   last_details>>

(***************************************************************************)
(* fetch_places_paginated_generic (src/utils/pagination.py:17-133).        *)
(***************************************************************************)
\* pagination.py:39-42: the locals at the start of a run
FetchLocalsReset ==
    /\ all_results_this_run' = <<>>
    /\ seen_place_ids_this_run' = {}
    /\ f_current_page' = 0
    /\ f_next_page_token' = FALSE
    /\ fetch_none' = FALSE
    /\ raw_pages' = <<>>
    /\ f_requests' = <<>>

FetchLoopCond_OffByOne(tok, page) == tok /\ page <= MAX_PAGES

\* pagination.py:84
FetchLoopCond(tok, page) == tok /\ page < MAX_PAGES

\* a standalone run of the fetcher
FetchStart ==
    /\ pc = "idle"
    /\ fpc \in {"idle", "done"}
    /\ runs < MaxRuns
    /\ runs' = runs + 1
    /\ fpc' = "first"
    /\ FetchLocalsReset
    /\ UNCHANGED <<helperVars, sessionVars, pc, argVars, businesses, loopVars,
                   all_results_for_industry_and_variants, pageVars, processVars,
                   gridVars, hits, keywordHistory, callHistory, originHistory,
                   last_details, orderVars, requestVars>>

\* pagination.py:56-83: the initial request and its status
FetchFirstPage ==
    /\ fpc = "first"
    /\ \E resp \in FetchResponses(pc = "idle", hits, f_current_page + 1) :
         /\ hits' = IF pc # "idle" /\ resp.results # <<>> THEN hits + 1 ELSE hits
         /\ f_requests' = Append(f_requests, Request(FALSE, FetchDelayBefore(FALSE), resp))
         /\ IF resp.none
              THEN /\ fetch_none' = FetchReturnsNone(TRUE, resp)
                   /\ fpc' = "done"
                   /\ UNCHANGED <<all_results_this_run, seen_place_ids_this_run,
                                  f_current_page, f_next_page_token, raw_pages>>
              ELSE IF FetchStatusOk(resp.status)
                THEN LET m == FetchMerge(all_results_this_run, seen_place_ids_this_run,
                                         resp.results)
                     IN /\ all_results_this_run' = m.results
                        /\ seen_place_ids_this_run' = m.ids
                        /\ raw_pages' = raw_pages \o resp.results
                        /\ f_next_page_token' = resp.token
                        /\ f_current_page' = f_current_page + 1
                        /\ fpc' = IF FetchLoopCond(resp.token, f_current_page + 1)
                                    THEN "next" ELSE "done"
                        /\ UNCHANGED fetch_none
                ELSE /\ fetch_none' = FetchReturnsNone(TRUE, resp)
                     /\ fpc' = "done"
                     /\ UNCHANGED <<all_results_this_run, seen_place_ids_this_run,
                                    f_current_page, f_next_page_token, raw_pages>>
    /\ UNCHANGED <<helperVars, sessionVars, pc, argVars, businesses, loopVars,
                   all_results_for_industry_and_variants, pageVars, processVars,
                   gridVars, runs, orderVars, requestVars, keywordHistory, callHistory, originHistory,
                   last_details>>

\* pagination.py:84-128: one iteration of the loop over the later pages
FetchNextPage ==
    /\ fpc = "next"
    /\ \E resp \in FetchResponses(pc = "idle", hits, f_current_page + 1) :
         /\ hits' = IF pc # "idle" /\ resp.results # <<>> THEN hits + 1 ELSE hits
         /\ f_requests' = Append(f_requests, Request(TRUE, FetchDelayBefore(TRUE), resp))
         /\ IF resp.none
              THEN /\ fetch_none' = FetchReturnsNone(FALSE, resp)
                   /\ fpc' = "done"
                   /\ UNCHANGED <<all_results_this_run, seen_place_ids_this_run,
                                  f_current_page, f_next_page_token, raw_pages>>
              ELSE IF FetchStatusOk(resp.status)
                THEN LET m == FetchMerge(all_results_this_run, seen_place_ids_this_run,
                                         resp.results)
                     IN /\ all_results_this_run' = m.results
                        /\ seen_place_ids_this_run' = m.ids
                        /\ raw_pages' = raw_pages \o resp.results
                        /\ f_next_page_token' = resp.token
                        /\ UNCHANGED fetch_none
                        /\ IF resp.results = <<>> /\ resp.token
                             THEN fpc' = "done" /\ UNCHANGED f_current_page
                             ELSE /\ f_current_page' = f_current_page + 1
                                  /\ fpc' = IF FetchLoopCond(resp.token, f_current_page + 1)
                                              THEN "next" ELSE "done"
                ELSE /\ f_next_page_token' = FALSE
                     /\ fetch_none' = FetchReturnsNone(FALSE, resp)
                     /\ fpc' = "done"
                     /\ UNCHANGED <<all_results_this_run, seen_place_ids_this_run,
                                    f_current_page, raw_pages>>
    /\ UNCHANGED <<helperVars, sessionVars, pc, argVars, businesses, loopVars,
                   all_results_for_industry_and_variants, pageVars, processVars,
                   gridVars, runs, orderVars, requestVars, keywordHistory, callHistory, originHistory,
                   last_details>>

(***************************************************************************)
(* perform_grid_search (src/utils/radius_utils.py:81-143).                 *)
(***************************************************************************)
\* the locals of perform_grid_search outside a call
GridLocalsReset ==
    /\ grid_points' = <<>> /\ gp_i' = 1 /\ all_new_grid_results' = <<>>
    /\ grid_processed_before' = {} /\ grid_found' = {}
    /\ grid_failures' = 0 /\ grid_repeats' = {}

\* radius_utils.py:105-122: the fetch run of the next grid point starts
GridPointFetch ==
    /\ pc = "grid"
    /\ GridLoopCond(all_new_grid_results, gp_i, Len(grid_points))
    /\ pc' = "fetch"
    /\ fpc' = "first"
    /\ FetchLocalsReset
    /\ grid_fetches' = grid_fetches + 1
    /\ UNCHANGED <<helperVars, sessionVars, argVars, businesses, loopVars,
                   all_results_for_industry_and_variants, pageVars, processVars,
                   gridVars, runs, orderVars, requestVars, hits, direct_count, geocode_requests, callHistory,
                   originHistory, last_details>>

\* radius_utils.py:124-137: the point's results are merged
GridPointMerge ==
    /\ pc = "fetch"
    /\ fpc = "done"
    /\ LET m == GridPointResult(all_new_grid_results, processed_businesses,
                                fetch_none, all_results_this_run)
       IN /\ all_new_grid_results' = m.results
          /\ processed_businesses' = m.processed
    /\ gp_i' = GridNextPoint(gp_i, fetch_none, Len(grid_points))
    /\ grid_failures' = IF fetch_none THEN grid_failures + 1 ELSE grid_failures
    /\ grid_found' = grid_found \cup IdsOf(all_results_this_run)
    /\ grid_repeats' = grid_repeats \cup (IdsOf(all_results_this_run) \cap grid_found)
    /\ pc' = "grid"
    /\ fpc' = "idle"
    /\ FetchLocalsReset
    /\ UNCHANGED <<helperVars, returned_ids, calls, argVars, businesses, loopVars,
                   all_results_for_industry_and_variants, pageVars, processVars,
                   grid_points, grid_processed_before, runs, orderVars, requestVars, hits, keywordHistory,
                   callHistory, originHistory, last_details>>

\* radius_utils.py:142-143 and app.py:326-334: the grid results are returned
\* and added to the keyword's results
GridSearchReturn ==
    /\ pc = "grid"
    /\ ~GridLoopCond(all_new_grid_results, gp_i, Len(grid_points))
    /\ all_page_results' = all_page_results \o all_new_grid_results
    /\ page_origin' = page_origin \o Tags(Len(all_new_grid_results), "grid", current_keyword)
    /\ GridLocalsReset
    /\ pc' = "accumulate"
    /\ UNCHANGED <<helperVars, sessionVars, argVars, businesses, loopVars,
                   all_results_for_industry_and_variants, current_page,
                   next_page_token, page_requests, processVars, fetchVars, runs, orderVars, requestVars, hits,
                   keywordHistory, callHistory, pool_origin, last_details>>

(***************************************************************************)
(* get_businesses, continued: accumulation, dedup, enrichment, emission.   *)
(***************************************************************************)
\* app.py:346: the keyword's results join the industry's candidate pool
AccumulateKeyword ==
    /\ pc = "accumulate"
    /\ all_results_for_industry_and_variants' =
         all_results_for_industry_and_variants \o all_page_results
    /\ pool_origin' = pool_origin \o page_origin
    /\ all_page_results' = <<>> /\ current_page' = 0 /\ next_page_token' = FALSE
    /\ page_requests' = <<>>
    /\ page_origin' = <<>>
    /\ direct_count' = 0 /\ geocode_requests' = 0 /\ grid_fetches' = 0
    /\ kw_i' = kw_i + 1
    /\ pc' = "keyword"
    /\ UNCHANGED <<helperVars, sessionVars, argVars, businesses, loc_i, ind_i, search_keywords,
                   current_keyword, processVars, gridVars, fetchVars, runs, orderVars, requestVars, hits,
                   callHistory, last_details>>

\* app.py:349-358, 400-403: the keyword loop is over
BeginProcessing ==
    /\ pc = "keyword"
    /\ kw_i > Len(search_keywords)
    /\ IF all_results_for_industry_and_variants # <<>>
         THEN /\ ids_added_this_industry_block' = {}
              /\ place_i' = 1
              /\ pc' = "process"
              /\ UNCHANGED <<loc_i, ind_i>>
         ELSE /\ EndBlock
              /\ UNCHANGED processVars
    /\ UNCHANGED <<helperVars, sessionVars, argVars, businesses, kw_i, search_keywords,
                   current_keyword, all_results_for_industry_and_variants, pageVars,
                   gridVars, fetchVars, runs, orderVars, requestVars, hits, keywordHistory, callHistory,
                   originHistory, last_details>>

\* app.py:360-397: one candidate place is deduplicated, enriched and emitted
ProcessPlace ==
    /\ pc = "process"
    /\ place_i <= Len(all_results_for_industry_and_variants)
    /\ LET place == all_results_for_industry_and_variants[place_i]
       IN IF IsNewPlace(place.place_id, processed_businesses,
                        ids_added_this_industry_block)
            THEN /\ processed_businesses' = processed_businesses \cup {place.place_id}
                 /\ ids_added_this_industry_block' =
                      ids_added_this_industry_block \cup {place.place_id}
                 /\ IF NeedsDetails(place)
                      THEN \E details \in DetailsResponses :
                             /\ businesses' = Append(businesses,
                                  MakeLead(place, details, industry, current_keyword))
                             /\ last_details' = IF details.none THEN "failed" ELSE "ok"
                      ELSE /\ businesses' = Append(businesses,
                                  MakeLead(place, [none |-> FALSE,
                                                   has_phone |-> place.has_phone,
                                                   has_website |-> place.has_website],
                                           industry, current_keyword))
                           /\ last_details' = "not needed"
            ELSE /\ last_details' = "not new"
                 /\ UNCHANGED <<processed_businesses, ids_added_this_industry_block,
                                businesses>>
    /\ place_i' = place_i + 1
    /\ UNCHANGED <<helperVars, returned_ids, calls, pc, argVars, loopVars,
                   all_results_for_industry_and_variants, pageVars, gridVars,
                   fetchVars, runs, orderVars, requestVars, hits, keywordHistory, callHistory, originHistory>>

\* app.py:398-406: the industry's candidates are all processed
EndIndustry ==
    /\ pc = "process"
    /\ place_i > Len(all_results_for_industry_and_variants)
    /\ EndBlock
    /\ all_results_for_industry_and_variants' = <<>>
    /\ pool_origin' = <<>>
    /\ last_details' = "none yet"
    /\ place_i' = 1 /\ ids_added_this_industry_block' = {}
    /\ UNCHANGED <<helperVars, sessionVars, argVars, businesses, kw_i, search_keywords,
                   current_keyword, pageVars, gridVars, fetchVars, runs, orderVars, requestVars, hits,
                   keywordHistory, callHistory, page_origin>>

\* the locals of get_businesses go out of scope
LocalsReset ==
    /\ industries' = <<>>
    /\ search_target' = [kind |-> "other", locs |-> <<>>]
    /\ grid_cell_radius_km' = 0
    /\ businesses' = <<>>
    /\ loc_i' = 1 /\ ind_i' = 1 /\ kw_i' = 1
    /\ search_keywords' = <<>>
    /\ current_keyword' = ""
    /\ all_results_for_industry_and_variants' = <<>>
    /\ all_page_results' = <<>> /\ current_page' = 0 /\ next_page_token' = FALSE
    /\ page_requests' = <<>>
    /\ place_i' = 1 /\ ids_added_this_industry_block' = {}
    /\ GridLocalsReset

\* app.py:411-412: the list is returned to the caller
ReturnBusinesses ==
    /\ pc = "return"
    /\ returned_ids' = returned_ids \cup IdsOf(businesses)
    /\ pc' = "idle"
    /\ LocalsReset
    /\ processed_at_start' = {} /\ attempted' = {} /\ first_page_failed' = FALSE
    /\ UNCHANGED <<helperVars, processed_businesses, calls, fetchVars, hits, runs, orderVars, requestVars, keywordHistory,
                   originHistory, last_details>>

\* app.py:182-187, 206-209: `return []` of a failed initial check
ReturnEmpty ==
    /\ pc = "rejected"
    /\ pc' = "idle"
    /\ LocalsReset
    /\ processed_at_start' = {}
    /\ UNCHANGED <<helperVars, sessionVars, fetchVars, hits, runs, orderVars, requestVars,
                   keywordHistory, attempted, first_page_failed, originHistory,
                   last_details>>

Next ==
    \/ \E inds \in IndustryInputs, target \in TargetInputs, radius \in RadiusInputs :
          GetBusinesses(inds, target, radius)
    \/ ReturnEmpty
    \/ BeginIndustry
    \/ DirectFirstPage
    \/ DirectNextPage
    \/ GridSearchFallback
    \/ GridPointFetch
    \/ FetchFirstPage
    \/ FetchNextPage
    \/ GridPointMerge
    \/ GridSearchReturn
    \/ AccumulateKeyword
    \/ BeginProcessing
    \/ ProcessPlace
    \/ EndIndustry
    \/ ReturnBusinesses

Spec == Init /\ [][Next]_vars

\* the fetcher on its own, run on pages that repeat places
NextFetch == FetchStart \/ FetchFirstPage \/ FetchNextPage

SpecFetch == Init /\ [][NextFetch]_vars

(***************************************************************************)
(* perform_grid_search on its own, on two orders of the same grid points.  *)
(***************************************************************************)
\* the sequence s in the order perm
Permuted(s, perm) == [k \in 1..Len(s) |-> s[perm[k]]]

\* the orders of n grid points
OrdersOf(n) == {perm \in [1..n -> 1..n] : Range(perm) = 1..n}

\* radius_utils.py:81-143: one call on the session set processed_set whose
\* fetch runs return fetched[k] at point k, and the same call with the points
\* listed in the order perm
GridSearchInOrders(processed_set, fetched, perm) ==
    /\ pc = "idle"
    /\ ~order_in.called
    /\ order_in' = [called |-> TRUE, processed |-> processed_set, fetched |-> fetched,
                    order |-> perm]
    /\ order_out' = GridSearchFrom(<<>>, processed_set, fetched, 1)
    /\ order_out_permuted' = GridSearchFrom(<<>>, processed_set, Permuted(fetched, perm), 1)
    /\ UNCHANGED <<helperVars, sessionVars, pc, argVars, businesses, loopVars,
                   all_results_for_industry_and_variants, pageVars, processVars,
                   gridVars, fetchVars, runs, hits, keywordHistory, callHistory,
                   originHistory, last_details, requestVars>>

NextGridOrder ==
    /\ ~order_in.called
    /\ \E processed_set \in SUBSET PlaceIds, n \in 0..MaxGridPoints :
         \E fetched \in [1..n -> FetchOutcomes], perm \in OrdersOf(n) :
            GridSearchInOrders(processed_set, fetched, perm)

SpecGridOrder == Init /\ [][NextGridOrder]_vars

(***************************************************************************)
(* safe_request (src/app.py:64-99).                                        *)
(***************************************************************************)
\* what one requests.get can end in: an HTTP status code, or a
\* RequestException (timeout, connection error)
RequestException == 0

AttemptOutcomes == {200, 400, 403, 404, 429, 500, RequestException}

\* the arguments of the call: retries, initial_delay (the default and a
\* larger one), max_delay (the default)
RetriesInputs == 0..MaxRetries

InitialDelayInputs == {1, 8}

MaxDelayInputs == {15}

\* 0.8 + 0.4 * random.random(), in hundredths: the ends and the middle of
\* the interval [0.8, 1.2)
JitterHundredths == {80, 100, 119}

RECURSIVE Pow2(_)
Pow2(n) == IF n = 0 THEN 1 ELSE 2 * Pow2(n - 1)

Min(a, b) == IF a <= b THEN a ELSE b

\* app.py:71
RequestSucceeds(status) == status = 200

RequestAborts_Only400(status) == status = 400

\* app.py:79
RequestAborts(status) == status \in {400, 403}

RetryLoopCond_OneMore(n, retries) == n <= retries

\* app.py:66: for attempt in range(retries)
RetryLoopCond(n, retries) == n < retries

\* app.py:74, 83, 88, 93: min(initial_delay * (2 ** attempt), max_delay)
BackoffDelay(initial_delay, max_delay, n) == Min(initial_delay * Pow2(n), max_delay)

\* app.py:64: the call
SafeRequest(retries, initial_delay, max_delay) ==
    /\ pc = "idle" /\ fpc \in {"idle", "done"}
    /\ sr_pc \in {"idle", "done"}
    /\ sr_calls < MaxRequests
    /\ sr_calls' = sr_calls + 1
    /\ sr_args' = [retries |-> retries, initial_delay |-> initial_delay,
                   max_delay |-> max_delay]
    /\ attempt' = 0
    /\ sr_attempts' = <<>>
    /\ sr_result' = "none yet"
    /\ sr_pc' = "attempt"
    /\ UNCHANGED <<helperVars, sessionVars, pc, argVars, businesses, loopVars,
                   all_results_for_industry_and_variants, pageVars, processVars,
                   gridVars, fetchVars, runs, hits, keywordHistory, callHistory,
                   originHistory, last_details, orderVars>>

\* app.py:66-96: one iteration of the loop: the request, and the backoff
\* sleep or the return that its outcome leads to
SafeRequestAttempt ==
    /\ sr_pc = "attempt"
    /\ RetryLoopCond(attempt, sr_args.retries)
    /\ \E status \in AttemptOutcomes, jitter \in JitterHundredths :
         IF status # RequestException /\ RequestSucceeds(status)
           THEN /\ sr_attempts' = Append(sr_attempts, [status |-> status, slept |-> 0])
                /\ sr_result' = "json"
                /\ sr_pc' = "done"
                /\ UNCHANGED attempt
           ELSE IF status # RequestException /\ RequestAborts(status)
             THEN /\ sr_attempts' = Append(sr_attempts, [status |-> status, slept |-> 0])
                  /\ sr_result' = "None"
                  /\ sr_pc' = "done"
                  /\ UNCHANGED attempt
             ELSE /\ sr_attempts' =
                       Append(sr_attempts,
                              [status |-> status,
                               slept |-> BackoffDelay(sr_args.initial_delay,
                                                      sr_args.max_delay, attempt) * jitter])
                  /\ attempt' = attempt + 1
                  /\ UNCHANGED <<sr_result, sr_pc>>
    /\ UNCHANGED <<helperVars, sessionVars, pc, argVars, businesses, loopVars,
                   all_results_for_industry_and_variants, pageVars, processVars,
                   gridVars, fetchVars, runs, hits, keywordHistory, callHistory,
                   originHistory, last_details, orderVars, sr_args, sr_calls>>

\* app.py:98-99: the loop is over
SafeRequestGiveUp ==
    /\ sr_pc = "attempt"
    /\ ~RetryLoopCond(attempt, sr_args.retries)
    /\ sr_result' = "None"
    /\ sr_pc' = "done"
    /\ UNCHANGED <<helperVars, sessionVars, pc, argVars, businesses, loopVars,
                   all_results_for_industry_and_variants, pageVars, processVars,
                   gridVars, fetchVars, runs, hits, keywordHistory, callHistory,
                   originHistory, last_details, orderVars, sr_args, attempt,
                   sr_attempts, sr_calls>>

NextRequest ==
    \/ \E retries \in RetriesInputs, initial_delay \in InitialDelayInputs,
          max_delay \in MaxDelayInputs :
          SafeRequest(retries, initial_delay, max_delay)
    \/ SafeRequestAttempt
    \/ SafeRequestGiveUp

SpecRequest == Init /\ [][NextRequest]_vars

(***************************************************************************)
(* make_api_request_with_retry (src/utils/api_utils.py:30-105).            *)
(***************************************************************************)
MAX_RETRIES == 5

INITIAL_BACKOFF_SECONDS == 1

MAX_BACKOFF_SECONDS == 32

\* the `status` field of a response body that came with HTTP 2xx; NOT_FOUND
\* stands for the statuses the code calls unexpected
BodyStatuses == {"OK", "ZERO_RESULTS", "OVER_QUERY_LIMIT", "INVALID_REQUEST",
                 "REQUEST_DENIED", "UNKNOWN_ERROR", "NOT_FOUND"}

\* the status codes on which raise_for_status raises HTTPError
HttpErrorCodes == {"HTTP 400", "HTTP 403", "HTTP 500"}

\* what one attempt can end in: a body status, an HTTPError with its status
\* code, a Timeout, or another RequestException
ApiOutcomes == BodyStatuses \cup HttpErrorCodes \cup {"Timeout", "ConnectionError"}

\* 1 + 0.4 * (random.random() - 0.5), in hundredths: the ends of [0.8, 1.2)
ApiJitterHundredths == {80, 119}

Max(a, b) == IF a >= b THEN a ELSE b

\* api_utils.py:60-65: the bodies that are returned
ApiReturnsData(outcome) == outcome \in {"OK", "ZERO_RESULTS"}

\* api_utils.py:69-72, 77-78: the outcomes that end the call with None; an
\* HTTPError, whatever its code, is caught at 86-90 and falls through to the
\* retry delay
ApiReturnsNone(outcome) == outcome \in {"INVALID_REQUEST", "REQUEST_DENIED"}

\* api_utils.py:96-97: max(0.1, current_backoff + jitter), in hundredths
ApiSleepTime(backoff, jitter) == Max(10, backoff * jitter)

\* api_utils.py:30, 42-50: the call
MakeApiRequestWithRetry(key) ==
    /\ pc = "idle" /\ fpc \in {"idle", "done"}
    /\ api_pc \in {"idle", "done"}
    /\ api_calls < MaxApiCalls
    /\ api_calls' = api_calls + 1
    /\ api_key' = key
    /\ api_attempt' = 0
    /\ api_attempts' = <<>>
    /\ IF key
         THEN /\ current_backoff' = INITIAL_BACKOFF_SECONDS
              /\ api_result' = "none yet"
              /\ api_pc' = "attempt"
         ELSE /\ current_backoff' = 0
              /\ api_result' = "None"
              /\ api_pc' = "done"
    /\ UNCHANGED <<sessionVars, pc, argVars, businesses, loopVars,
                   all_results_for_industry_and_variants, pageVars, processVars,
                   gridVars, fetchVars, runs, hits, keywordHistory, callHistory,
                   originHistory, last_details, orderVars, requestVars,
                   generatorVars, geocodeVars, queueVars>>

\* api_utils.py:51-103: one iteration of the loop: the request, and the
\* return or the retry delay that its outcome leads to
ApiAttempt ==
    /\ api_pc = "attempt"
    /\ api_attempt < MAX_RETRIES
    /\ \E outcome \in ApiOutcomes, jitter \in ApiJitterHundredths :
         IF ApiReturnsData(outcome)
           THEN /\ api_attempts' = Append(api_attempts, [outcome |-> outcome, slept |-> 0])
                /\ api_result' = outcome
                /\ api_pc' = "done"
                /\ UNCHANGED <<api_attempt, current_backoff>>
           ELSE IF ApiReturnsNone(outcome)
             THEN /\ api_attempts' = Append(api_attempts, [outcome |-> outcome, slept |-> 0])
                  /\ api_result' = "None"
                  /\ api_pc' = "done"
                  /\ UNCHANGED <<api_attempt, current_backoff>>
             ELSE IF api_attempt < MAX_RETRIES - 1
               THEN /\ api_attempts' =
                         Append(api_attempts,
                                [outcome |-> outcome,
                                 slept |-> ApiSleepTime(current_backoff, jitter)])
                    /\ current_backoff' = Min(current_backoff * 2, MAX_BACKOFF_SECONDS)
                    /\ api_attempt' = api_attempt + 1
                    /\ UNCHANGED <<api_result, api_pc>>
               ELSE /\ api_attempts' = Append(api_attempts, [outcome |-> outcome, slept |-> 0])
                    /\ api_result' = "None"
                    /\ api_pc' = "done"
                    /\ UNCHANGED <<api_attempt, current_backoff>>
    /\ UNCHANGED <<sessionVars, pc, argVars, businesses, loopVars,
                   all_results_for_industry_and_variants, pageVars, processVars,
                   gridVars, fetchVars, runs, hits, keywordHistory, callHistory,
                   originHistory, last_details, orderVars, requestVars,
                   generatorVars, geocodeVars, queueVars, api_key, api_calls>>

NextApiRequest ==
    \/ \E key \in BOOLEAN : MakeApiRequestWithRetry(key)
    \/ ApiAttempt

SpecApiRequest == Init /\ [][NextApiRequest]_vars

(***************************************************************************)
(* generate_grid_points (src/utils/radius_utils.py:43-78).  Latitudes and  *)
(* longitudes are integers in units of 1e-7 degree, radii are metres, and  *)
(* distances are kept in half metres so that 1.5 * r stays an integer.     *)
(***************************************************************************)
\* centers a geocoder returns: seven decimals, six decimals, the origin, and
\* southern and western ones
CenterLatInputs == {545972686, 545973000, 0, -338688197}

CenterLonInputs == {-59301234, -59301000, 1512092955}

\* app.py:215 passes 15000; zero and a small city as well
CityRadiusInputs == {0, 1000, 15000}

\* app.py:212 passes the slider value (0.2 to 5.0 km) times 1000; zero and a
\* negative radius for the guard
SearchRadiusInputs == {-1000, 0, 700, 1000, 5000}

\* math.ceil(a / b) for b > 0
CeilDiv(a, b) == -((-a) \div b)

Round6_Truncate(x) == IF x >= 0 THEN (x \div 10) * 10 ELSE -(((-x) \div 10) * 10)

\* radius_utils.py:74: round(x, 6), the multiple of 1e-6 nearest to x (the
\* inputs above have no tie)
Round6(x) == ((x + 5) \div 10) * 10

StepDistance_NoOverlap(search_radius_meters) == 4 * search_radius_meters

\* radius_utils.py:55: step_distance = search_radius_meters * 1.5, in half
\* metres
StepDistance(search_radius_meters) == 3 * search_radius_meters

MaxSteps_OneMore(city_radius_meters, search_radius_meters) ==
    CeilDiv(2 * city_radius_meters, StepDistance(search_radius_meters)) + 1

\* radius_utils.py:61: math.ceil(city_radius_meters / step_distance)
MaxSteps(city_radius_meters, search_radius_meters) ==
    CeilDiv(2 * city_radius_meters, StepDistance(search_radius_meters))

\* radius_utils.py:66: max(6, ceil(2 * pi * distance_from_center /
\* step_distance)) on ring i, where distance_from_center / step_distance = i;
\* 710 / 113 is 2 * pi to six decimals and gives the same ceiling for every
\* ring below 2000
NumPointsOnRing(i) == Max(6, CeilDiv(710 * i, 113))

\* radius_utils.py:43-78: the returned points.  The center comes back with
\* its coordinates rounded; a ring point is kept as its ring, its index on the
\* ring and its distance from the center (half metres), the arguments from
\* which get_point_at_distance computes its coordinates.  For radii of a
\* metre and more the rounding merges no two of these points.
GridPointsOf(center_lat, center_lon, city_radius_meters, search_radius_meters) ==
    IF RadiusRejected(search_radius_meters)
      THEN [center |-> <<>>, rings |-> {}]
      ELSE [center |-> <<Round6(center_lat), Round6(center_lon)>>,
            rings |->
              {[ring |-> i, j |-> j,
                distance_from_center |-> i * StepDistance(search_radius_meters)] :
                 <<i, j>> \in {p \in (1..MaxSteps(city_radius_meters, search_radius_meters))
                                        \X (0..(NumPointsOnRing(
                                                  MaxSteps(city_radius_meters,
                                                           search_radius_meters)) - 1)) :
                                  p[2] < NumPointsOnRing(p[1])}}]

\* radius_utils.py:43: one call
GenerateGridPoints(center_lat, center_lon, city_radius_meters, search_radius_meters) ==
    /\ pc = "idle"
    /\ ~gen_in.called
    /\ gen_in' = [called |-> TRUE, center_lat |-> center_lat, center_lon |-> center_lon,
                  city_radius_meters |-> city_radius_meters,
                  search_radius_meters |-> search_radius_meters]
    /\ gen_out' = GridPointsOf(center_lat, center_lon, city_radius_meters,
                               search_radius_meters)
    /\ UNCHANGED <<sessionVars, pc, argVars, businesses, loopVars,
                   all_results_for_industry_and_variants, pageVars, processVars,
                   gridVars, fetchVars, runs, hits, keywordHistory, callHistory,
                   originHistory, last_details, orderVars, requestVars, apiVars,
                   geocodeVars, queueVars>>

NextGenerate ==
    /\ ~gen_in.called
    /\ \E center_lat \in CenterLatInputs, center_lon \in CenterLonInputs,
          city_radius_meters \in CityRadiusInputs,
          search_radius_meters \in SearchRadiusInputs :
          GenerateGridPoints(center_lat, center_lon, city_radius_meters,
                             search_radius_meters)

SpecGenerate == Init /\ [][NextGenerate]_vars

(***************************************************************************)
(* get_coordinates (src/utils/google_utils.py:4-30).                       *)
(***************************************************************************)
\* the `location` objects of the results of a geocoding response
GeoLocations ==
    {[lat |-> lat, lng |-> lng] : lat \in CenterLatInputs, lng \in CenterLonInputs}

\* what the one requests.get of a call can end in: an exception of the
\* request, an HTTP error status, or a JSON body with a status and results
GeoResponses ==
    {[kind |-> k, status |-> "", results |-> <<>>] :
        k \in {"Timeout", "ConnectionError", "HTTP 400", "HTTP 403", "HTTP 500"}}
    \cup {[kind |-> "body", status |-> st, results |-> <<>>] :
             st \in {"OK", "ZERO_RESULTS", "REQUEST_DENIED", "OVER_QUERY_LIMIT",
                     "INVALID_REQUEST"}}
    \cup {[kind |-> "body", status |-> "OK", results |-> rs] :
             rs \in UNION {[1..n -> GeoLocations] : n \in 1..2}}

\* google_utils.py:18-24: the exception the try block ends in, "" if none:
\* requests.get raises on a network failure, raise_for_status on an HTTP
\* error status, and data["results"][0] raises IndexError on an empty list
GeoException(resp) ==
    IF resp.kind \in {"Timeout", "ConnectionError"} THEN resp.kind
    ELSE IF resp.kind # "body" THEN "HTTPError"
    ELSE IF resp.status = "OK" /\ resp.results = <<>> THEN "IndexError"
    ELSE ""

GeoCaught_RequestsOnly(exc) == exc \in {"Timeout", "ConnectionError", "HTTPError"}

\* google_utils.py:28: except Exception
GeoCaught(exc) == TRUE

GeoNonePair == [kind |-> "none", lat |-> 0, lng |-> 0]

\* google_utils.py:4, 15-17: the call
GetCoordinates ==
    /\ pc = "idle"
    /\ geo_pc \in {"idle", "done"}
    /\ geo_calls < MaxGeocodeCalls
    /\ geo_calls' = geo_calls + 1
    /\ geo_requests' = 0
    /\ geo_response' = [kind |-> "none yet", status |-> "", results |-> <<>>]
    /\ geo_result' = [kind |-> "none yet", lat |-> 0, lng |-> 0]
    /\ geo_pc' = "request"
    /\ UNCHANGED <<sessionVars, pc, argVars, businesses, loopVars,
                   all_results_for_industry_and_variants, pageVars, processVars,
                   gridVars, fetchVars, runs, hits, keywordHistory, callHistory,
                   originHistory, last_details, orderVars, requestVars, apiVars,
                   generatorVars, queueVars>>

\* google_utils.py:18-30: the request and the return its answer leads to
GeoRequest ==
    /\ geo_pc = "request"
    /\ \E resp \in GeoResponses :
         /\ geo_response' = resp
         /\ geo_result' =
              IF GeoException(resp) # ""
                THEN IF GeoCaught(GeoException(resp))
                       THEN GeoNonePair
                       ELSE [kind |-> "raised", lat |-> 0, lng |-> 0]
                ELSE IF resp.status = "OK"
                  THEN [kind |-> "pair", lat |-> resp.results[1].lat,
                        lng |-> resp.results[1].lng]
                  ELSE GeoNonePair
    /\ geo_requests' = geo_requests + 1
    /\ geo_pc' = "done"
    /\ UNCHANGED <<sessionVars, pc, argVars, businesses, loopVars,
                   all_results_for_industry_and_variants, pageVars, processVars,
                   gridVars, fetchVars, runs, hits, keywordHistory, callHistory,
                   originHistory, last_details, orderVars, requestVars, apiVars,
                   generatorVars, queueVars, geo_calls>>

NextGeocode ==
    \/ GetCoordinates
    \/ GeoRequest

SpecGeocode == Init /\ [][NextGeocode]_vars

(***************************************************************************)
(* The sheet layer: safe_append, save_failed_rows_to_file and              *)
(* retry_failed_rows (src/app.py:101-138, 607-646).  A row is a number;    *)
(* the write of failed_rows.json is taken to succeed.                      *)
(***************************************************************************)
\* app.py:101: retries=3
DefaultAppendRetries == 3

\* the retries argument: the default, which every caller uses, and smaller
\* ones
AppendRetriesInputs == {0, 1, DefaultAppendRetries}

AppendLoopCond_OneMore(n, retries) == n <= retries

\* app.py:103: for attempt in range(retries)
AppendLoopCond(n, retries) == n < retries

\* app.py:126-136: the file after save_failed_rows_to_file
SavedQueue(queue) == queue

QueueAfterCopy_Kept(queue) == queue

\* app.py:614: st.session_state.failed_rows = []
QueueAfterCopy(queue) == <<>>

QueueWithoutSheet_Cleared(copy) == <<>>

\* app.py:620: st.session_state.failed_rows = failed_rows
QueueWithoutSheet(copy) == copy

\* app.py:101: safe_append is entered for row
EnterSafeAppend(row, retries, caller) ==
    /\ sa_pc' = "attempt"
    /\ sa_caller' = caller
    /\ sa_row' = row
    /\ sa_retries' = retries
    /\ sa_attempt' = 0
    /\ sa_result' = "none yet"
    /\ sa_failed_before' = failed_rows
    /\ sa_sheet_before' = Len(sheet_rows)

\* app.py:1100-1108: the save loop hands a new row to safe_append
SafeAppend(retries) ==
    /\ pc = "idle"
    /\ rq_pc \in {"idle", "done"}
    /\ sa_pc \in {"idle", "returned"}
    /\ next_row <= MaxRows
    /\ next_row' = next_row + 1
    /\ EnterSafeAppend(next_row, retries, "save")
    /\ rq_pc' = "idle"
    /\ UNCHANGED <<failed_rows, failed_rows_json, sheet_rows,
                   retry_rows, sheet, rq_i, success_count, queue_before, sheet_before,
                   rq_calls>>
    /\ UNCHANGED <<sessionVars, pc, argVars, businesses, loopVars,
                   all_results_for_industry_and_variants, pageVars, processVars,
                   gridVars, fetchVars, runs, hits, keywordHistory, callHistory,
                   originHistory, last_details, orderVars, requestVars, apiVars,
                   generatorVars, geocodeVars>>

\* app.py:103-114: one iteration of the loop: append_row succeeds and True
\* is returned, or it raises APIError and the loop sleeps and goes on
SafeAppendAttempt ==
    /\ sa_pc = "attempt"
    /\ AppendLoopCond(sa_attempt, sa_retries)
    /\ \E appended \in BOOLEAN :
         IF appended
           THEN /\ sheet_rows' = Append(sheet_rows, sa_row)
                /\ sa_result' = "True"
                /\ sa_pc' = "returned"
                /\ UNCHANGED sa_attempt
           ELSE /\ sa_attempt' = sa_attempt + 1
                /\ UNCHANGED <<sheet_rows, sa_result, sa_pc>>
    /\ UNCHANGED <<failed_rows, failed_rows_json, sa_caller, sa_row, sa_retries,
                   sa_failed_before, sa_sheet_before,
                   rq_pc, retry_rows, sheet, rq_i, success_count, queue_before, sheet_before,
                   next_row, rq_calls>>
    /\ UNCHANGED <<sessionVars, pc, argVars, businesses, loopVars,
                   all_results_for_industry_and_variants, pageVars, processVars,
                   gridVars, fetchVars, runs, hits, keywordHistory, callHistory,
                   originHistory, last_details, orderVars, requestVars, apiVars,
                   generatorVars, geocodeVars>>

\* app.py:116-123: the loop is over: the row joins the queue, the queue is
\* saved, False is returned
SafeAppendGiveUp ==
    /\ sa_pc = "attempt"
    /\ ~AppendLoopCond(sa_attempt, sa_retries)
    /\ failed_rows' = Append(failed_rows, sa_row)
    /\ failed_rows_json' = SavedQueue(failed_rows')
    /\ sa_result' = "False"
    /\ sa_pc' = "returned"
    /\ UNCHANGED <<sheet_rows, sa_caller, sa_row, sa_retries, sa_attempt,
                   sa_failed_before, sa_sheet_before,
                   rq_pc, retry_rows, sheet, rq_i, success_count, queue_before, sheet_before,
                   next_row, rq_calls>>
    /\ UNCHANGED <<sessionVars, pc, argVars, businesses, loopVars,
                   all_results_for_industry_and_variants, pageVars, processVars,
                   gridVars, fetchVars, runs, hits, keywordHistory, callHistory,
                   originHistory, last_details, orderVars, requestVars, apiVars,
                   generatorVars, geocodeVars>>

\* app.py:607-614: the call; with an empty queue it returns at once, else
\* it copies the queue and clears the session's list
RetryFailedRows ==
    /\ pc = "idle"
    /\ rq_pc \in {"idle", "done"}
    /\ sa_pc \in {"idle", "returned"}
    /\ rq_calls < MaxRetryPasses
    /\ rq_calls' = rq_calls + 1
    /\ queue_before' = failed_rows
    /\ sheet_before' = Len(sheet_rows)
    /\ rq_i' = 1
    /\ success_count' = 0
    /\ sheet' = "none yet"
    /\ IF failed_rows = <<>>
         THEN /\ rq_pc' = "done"
              /\ retry_rows' = <<>>
              /\ UNCHANGED failed_rows
         ELSE /\ rq_pc' = "connect"
              /\ retry_rows' = failed_rows
              /\ failed_rows' = QueueAfterCopy(failed_rows)
    /\ sa_pc' = "idle"
    /\ UNCHANGED <<failed_rows_json, sheet_rows,
                   sa_caller, sa_row, sa_retries, sa_attempt, sa_result,
                   sa_failed_before, sa_sheet_before, next_row>>
    /\ UNCHANGED <<sessionVars, pc, argVars, businesses, loopVars,
                   all_results_for_industry_and_variants, pageVars, processVars,
                   gridVars, fetchVars, runs, hits, keywordHistory, callHistory,
                   originHistory, last_details, orderVars, requestVars, apiVars,
                   generatorVars, geocodeVars>>

\* app.py:616-621: connect_to_google_sheets returns a sheet or None
RetryConnect ==
    /\ rq_pc = "connect"
    /\ \E connected \in BOOLEAN :
         IF connected
           THEN /\ sheet' = "sheet"
                /\ rq_pc' = "loop"
                /\ UNCHANGED failed_rows
           ELSE /\ sheet' = "None"
                /\ failed_rows' = QueueWithoutSheet(retry_rows)
                /\ rq_pc' = "done"
    /\ UNCHANGED <<failed_rows_json, sheet_rows,
                   sa_pc, sa_caller, sa_row, sa_retries, sa_attempt, sa_result,
                   sa_failed_before, sa_sheet_before,
                   retry_rows, rq_i, success_count, queue_before, sheet_before,
                   next_row, rq_calls>>
    /\ UNCHANGED <<sessionVars, pc, argVars, businesses, loopVars,
                   all_results_for_industry_and_variants, pageVars, processVars,
                   gridVars, fetchVars, runs, hits, keywordHistory, callHistory,
                   originHistory, last_details, orderVars, requestVars, apiVars,
                   generatorVars, geocodeVars>>

\* app.py:628-634: the next row of the copy is handed to safe_append, with
\* the default retries
RetryRow ==
    /\ rq_pc = "loop"
    /\ rq_i <= Len(retry_rows)
    /\ EnterSafeAppend(retry_rows[rq_i], DefaultAppendRetries, "retry")
    /\ rq_pc' = "append"
    /\ UNCHANGED <<failed_rows, failed_rows_json, sheet_rows,
                   retry_rows, sheet, rq_i, success_count, queue_before, sheet_before,
                   next_row, rq_calls>>
    /\ UNCHANGED <<sessionVars, pc, argVars, businesses, loopVars,
                   all_results_for_industry_and_variants, pageVars, processVars,
                   gridVars, fetchVars, runs, hits, keywordHistory, callHistory,
                   originHistory, last_details, orderVars, requestVars, apiVars,
                   generatorVars, geocodeVars>>

\* app.py:634-637: safe_append has returned
RetryRowDone ==
    /\ rq_pc = "append"
    /\ sa_pc = "returned"
    /\ success_count' = IF sa_result = "True" THEN success_count + 1 ELSE success_count
    /\ rq_i' = rq_i + 1
    /\ rq_pc' = "loop"
    /\ sa_pc' = "idle"
    /\ UNCHANGED <<failed_rows, failed_rows_json, sheet_rows,
                   sa_caller, sa_row, sa_retries, sa_attempt, sa_result,
                   sa_failed_before, sa_sheet_before,
                   retry_rows, sheet, queue_before, sheet_before, next_row, rq_calls>>
    /\ UNCHANGED <<sessionVars, pc, argVars, businesses, loopVars,
                   all_results_for_industry_and_variants, pageVars, processVars,
                   gridVars, fetchVars, runs, hits, keywordHistory, callHistory,
                   originHistory, last_details, orderVars, requestVars, apiVars,
                   generatorVars, geocodeVars>>

\* app.py:639-646: the loop is over; the file is rewritten only when no row
\* failed again
RetryFinish ==
    /\ rq_pc = "loop"
    /\ rq_i > Len(retry_rows)
    /\ failed_rows_json' = IF failed_rows = <<>> THEN SavedQueue(failed_rows)
                           ELSE failed_rows_json
    /\ rq_pc' = "done"
    /\ UNCHANGED <<failed_rows, sheet_rows,
                   sa_pc, sa_caller, sa_row, sa_retries, sa_attempt, sa_result,
                   sa_failed_before, sa_sheet_before,
                   retry_rows, sheet, rq_i, success_count, queue_before, sheet_before,
                   next_row, rq_calls>>
    /\ UNCHANGED <<sessionVars, pc, argVars, businesses, loopVars,
                   all_results_for_industry_and_variants, pageVars, processVars,
                   gridVars, fetchVars, runs, hits, keywordHistory, callHistory,
                   originHistory, last_details, orderVars, requestVars, apiVars,
                   generatorVars, geocodeVars>>

NextRetryQueue ==
    \/ \E retries \in AppendRetriesInputs : SafeAppend(retries)
    \/ SafeAppendAttempt
    \/ SafeAppendGiveUp
    \/ RetryFailedRows
    \/ RetryConnect
    \/ RetryRow
    \/ RetryRowDone
    \/ RetryFinish

SpecRetryQueue == Init /\ [][NextRetryQueue]_vars


(***************************************************************************)
(* Properties.                                                             *)
(***************************************************************************)
\* the industry block has processed all of its candidates
BlockProcessed ==
    pc = "process" /\ place_i > Len(all_results_for_industry_and_variants)

\* the last ProcessPlace step appended a lead
LeadEmitted ==
    /\ pc = "process" /\ place_i > 1
    /\ last_details \in {"failed", "ok", "not needed"}
    /\ businesses # <<>>

\* ids of the pool entries that entered it with one of the origins srcs
PoolIds(srcs) ==
    {all_results_for_industry_and_variants[i].place_id :
        i \in {k \in 1..Len(pool_origin) : pool_origin[k].src \in srcs}} \ {NoPlaceId}

\* C1: no placeId is emitted twice, neither within the list of the running
\* call nor in this list and a list returned by an earlier call of the session
C1_AtMostOnceEmission ==
    /\ \A p \in IdsOf(businesses) : CountId(businesses, p) = 1
    /\ IdsOf(businesses) \cap returned_ids = {}

\* a place emitted by an earlier call was a candidate again and was skipped
C1_Witness ==
    /\ pc = "process" /\ place_i > 1
    /\ last_details = "not new"
    /\ all_results_for_industry_and_variants[place_i - 1].place_id \in returned_ids

\* C2: when an industry block is processed, every place perform_grid_search
\* returned as new for one of its keywords is in the list of leads
C2_GridResultsEmitted ==
    BlockProcessed => PoolIds({"grid"}) \subseteq IdsOf(businesses)

\* C3: when an industry block is processed, every place a direct search
\* returned that was not in the processed set at the start of the call is
\* emitted exactly once
C3_DirectResultsEmitted ==
    BlockProcessed =>
        \A p \in PoolIds({"direct", "direct, geocoding failed"}) \ processed_at_start :
            CountId(businesses, p) = 1

\* C4: when get_businesses returns, every id of the processed set was emitted
\* in a lead of this call or of an earlier call
C4_ProcessedOnlyEmitted ==
    pc = "return" => processed_businesses \subseteq (returned_ids \cup IdsOf(businesses))

\* C5: for a keyword whose first page succeeded, the geocoding request is made
\* if and only if the direct pages hold fewer than 55 results, and with 55 or
\* more results no grid-point fetch is made either
C5_GridTrigger ==
    pc = "accumulate" =>
        /\ (geocode_requests >= 1) <=> (direct_count < GRID_SEARCH_THRESHOLD)
        /\ direct_count >= GRID_SEARCH_THRESHOLD => grid_fetches = 0
        /\ grid_fetches >= 1 => geocode_requests = 1

\* a keyword whose direct pages hold exactly 55 results has skipped the grid
C5_Witness ==
    /\ pc = "accumulate"
    /\ direct_count = GRID_SEARCH_THRESHOLD
    /\ geocode_requests = 0

\* C6: a keyword whose geocoding failed fetches no grid point, its direct
\* results that were not processed at the start of the call are emitted, and
\* the call goes on to its return
C6_GeocodeFailureKeepsDirect ==
    /\ (pc = "accumulate" /\ geocode_requests >= 1
          /\ \E k \in 1..Len(page_origin) : page_origin[k].src = "direct, geocoding failed")
         => grid_fetches = 0
    /\ BlockProcessed =>
         (PoolIds({"direct, geocoding failed"}) \ processed_at_start)
             \subseteq IdsOf(businesses)

\* C7 as stated: a place whose details lookup failed is emitted with
\* phone_number and website both "N/A"
C7_FailedDetailsAllUnavailable ==
    (LeadEmitted /\ last_details = "failed") =>
        LET lead == businesses[Len(businesses)]
            place == all_results_for_industry_and_variants[place_i - 1]
        IN /\ lead.place_id = place.place_id
           /\ lead.phone_number = "N/A"
           /\ lead.website = "N/A"

\* C7 amended: a place whose details lookup failed is emitted, and each of
\* phone_number and website is "N/A" unless the search record carried the
\* field, whose value is then kept
C7_FailedDetailsKeepsRecord ==
    (pc = "process" /\ place_i > 1 /\ last_details = "failed") =>
        /\ businesses # <<>>
        /\ LET lead == businesses[Len(businesses)]
               place == all_results_for_industry_and_variants[place_i - 1]
           IN /\ lead.place_id = place.place_id
              /\ lead.phone_number = (IF place.has_phone THEN "search" ELSE "N/A")
              /\ lead.website = (IF place.has_website THEN "search" ELSE "N/A")

\* the details lookup failed for a place whose search record carried a website
C7_Witness ==
    /\ LeadEmitted /\ last_details = "failed"
    /\ all_results_for_industry_and_variants[place_i - 1].has_website

\* C8: after a failed first page request every keyword variant of every
\* industry and location is still searched, and the places the other units
\* found that were not processed at the start of the call are returned
C8_FailureSkipsOnlyVariant ==
    /\ (pc = "return" /\ first_page_failed)
         => attempted = AllUnits(industries, search_target.locs)
    /\ (BlockProcessed /\ first_page_failed)
         => (PoolIds({"direct", "direct, geocoding failed", "grid"}) \ processed_at_start)
                \subseteq IdsOf(businesses)

\* the part of C8 about the loops alone
AllUnitsAttempted ==
    pc = "return" => attempted = AllUnits(industries, search_target.locs)

\* C9: every lead carries an industry keyword of the caller, and the lead just
\* emitted carries the industry of the running loop iteration
C9_OriginalIndustry ==
    /\ \A i \in 1..Len(businesses) : businesses[i].business_type \in Range(industries)
    /\ LeadEmitted => businesses[Len(businesses)].business_type = industries[ind_i]

\* a lead was emitted for a place that a synonym's search found
C9_Witness ==
    /\ LeadEmitted
    /\ pool_origin[place_i - 1].keyword # industries[ind_i]

\* C10: the list of a fetch run holds no place_id twice, and the id set of the
\* run is the set of the place_ids of its list
C10_IntraRunDedup ==
    /\ \A p \in IdsOf(all_results_this_run) : CountId(all_results_this_run, p) = 1
    /\ seen_place_ids_this_run = IdsOf(all_results_this_run)

\* a finished run whose pages repeated a place and held a record without id
C10_Witness ==
    /\ fpc = "done" /\ ~fetch_none
    /\ f_current_page >= 2
    /\ \E p \in PlaceIds : CountId(raw_pages, p) >= 2
    /\ NoPlaceId \in IdsOf(raw_pages)

\* the last safe_request call of the fetch run
LastFetchRequest == f_requests[Len(f_requests)]

\* C11: a fetch run whose initial request returned null returns None with an
\* empty id set; a null or a non-OK status on a later page ends the run and
\* leaves the list exactly as the earlier pages built it, and the run does
\* not return None
C11_FirstVsLaterFailure ==
    /\ [](fpc = "done" /\ f_requests[1].status = "NONE"
            => fetch_none /\ all_results_this_run = <<>> /\ seen_place_ids_this_run = {})
    /\ [][(fpc = "next" /\ f_requests'[Len(f_requests')].status # "OK")
            => /\ fpc' = "done"
               /\ ~fetch_none'
               /\ all_results_this_run' = all_results_this_run
               /\ seen_place_ids_this_run' = seen_place_ids_this_run]_vars

\* a run that kept the records of its first page after INVALID_REQUEST on
\* the continuation token
C11_Witness ==
    /\ fpc = "done"
    /\ Len(f_requests) >= 2
    /\ LastFetchRequest.status = "INVALID_REQUEST"
    /\ all_results_this_run # <<>>
    /\ ~fetch_none

\* C12: a fetch run whose first page has status ZERO_RESULTS returns an empty
\* list, not None, and has made the initial request only
C12_ZeroResultsFirstPage ==
    (fpc \in {"next", "done"} /\ f_requests[1].status = "ZERO_RESULTS") =>
        /\ fpc = "done"
        /\ ~fetch_none
        /\ all_results_this_run = <<>>
        /\ Len(f_requests) = 1

\* a finished run whose ZERO_RESULTS first page carried a next_page_token
C12_Witness ==
    /\ fpc = "done"
    /\ f_requests[1].status = "ZERO_RESULTS"
    /\ f_requests[1].token

\* every request that carries a pagetoken follows a response that delivered a
\* token, after a sleep of d seconds
DelayedContinuations(requests, d) ==
    \A i \in 1..Len(requests) :
        requests[i].pagetoken =>
            /\ i > 1
            /\ requests[i - 1].token
            /\ requests[i].slept = d

\* C13: in the fetch run and in the direct pagination loop every request that
\* uses a continuation token comes after the 2-second sleep that follows the
\* response that delivered the token
C13_InterPageDelay ==
    /\ DelayedContinuations(f_requests, 2)
    /\ DelayedContinuations(page_requests, 2)

\* the direct loop and a grid-point fetch run have each used a token
C13_Witness ==
    /\ Len(page_requests) >= 2 /\ page_requests[2].pagetoken
    /\ Len(f_requests) >= 2 /\ f_requests[2].pagetoken

\* C14: the list of a fetch run never holds more than 60 records, and a run
\* whose list has reached 60 records requests no further page
C14_ResultCeiling ==
    /\ Len(all_results_this_run) <= MAX_RESULTS_PER_QUERY
    /\ Len(all_results_this_run) >= MAX_RESULTS_PER_QUERY => fpc # "next"

\* a run that collected 60 records and was offered a token with the last page
C14_Witness ==
    /\ fpc = "done"
    /\ Len(all_results_this_run) = MAX_RESULTS_PER_QUERY
    /\ LastFetchRequest.token

\* a request is made after a response only if the response carried a token
StopsWithoutToken(requests) ==
    \A i \in 2..Len(requests) :
        requests[i - 1].status = "OK" /\ requests[i - 1].token

\* C15: a fetch run and the direct pagination loop make at most 3 page
\* requests each, and none after a response without continuation token
C15_AtMostThreePages ==
    /\ Len(f_requests) <= MAX_PAGES
    /\ Len(page_requests) <= MAX_PAGES_TO_FETCH
    /\ StopsWithoutToken(f_requests)
    /\ StopsWithoutToken(page_requests)
    /\ fpc = "next" => Len(f_requests) < MAX_PAGES /\ LastFetchRequest.token
    /\ pc = "paginate" =>
         Len(page_requests) < MAX_PAGES_TO_FETCH /\ page_requests[Len(page_requests)].token

\* the direct loop and a grid-point fetch run each stopped after three pages
\* that all carried a token
C15_Witness ==
    /\ Len(page_requests) = MAX_PAGES_TO_FETCH
    /\ \A i \in 1..Len(page_requests) : page_requests[i].token
    /\ fpc = "done"
    /\ Len(f_requests) = MAX_PAGES
    /\ \A i \in 1..Len(f_requests) : f_requests[i].token

\* perform_grid_search is running
InGridSearch == pc \in {"grid", "fetch"}

\* perform_grid_search has left its loop and is about to return
GridSearchDone ==
    pc = "grid" /\ ~GridLoopCond(all_new_grid_results, gp_i, Len(grid_points))

\* C16: the list perform_grid_search builds holds no place that was in the
\* session set when the call started, and no place twice
C16_GridReturnsOnlyNew ==
    InGridSearch =>
        /\ IdsOf(all_new_grid_results) \cap grid_processed_before = {}
        /\ \A p \in IdsOf(all_new_grid_results) : CountId(all_new_grid_results, p) = 1

\* a finished grid search in which a later point returned a place again that
\* an earlier point had claimed
C16_Witness ==
    /\ GridSearchDone
    /\ grid_repeats \cap IdsOf(all_new_grid_results) # {}

\* C17: when perform_grid_search returns, one fetch run was started for each
\* grid point, whatever number of them returned None, and every place a fetch
\* run returned that was not in the session set before the call is in the list
C17_GridPointFailureIsolated ==
    GridSearchDone =>
        /\ grid_fetches = Len(grid_points)
        /\ (grid_found \ grid_processed_before) \subseteq IdsOf(all_new_grid_results)

\* a finished grid search whose first fetch run failed and whose list is not
\* empty
C17_Witness ==
    /\ GridSearchDone
    /\ grid_failures >= 1
    /\ grid_fetches >= 2
    /\ all_new_grid_results # <<>>

\* C18: the first grid point fetched is the center, and no point is fetched
\* before a point of an inner ring
C18_CenterFirstRingsOutward ==
    (InGridSearch /\ grid_points # <<>>) =>
        /\ grid_points[1].ring = 0
        /\ \A i \in 1..Len(grid_points), k \in 1..Len(grid_points) :
             i < k => grid_points[i].ring <= grid_points[k].ring

\* C19: on the same session set and the same fetch outcome per grid point,
\* perform_grid_search returns the same set of place ids and leaves the same
\* session set for every order of the points
C19_OrderIndependentContent ==
    /\ IdsOf(order_out.results) = IdsOf(order_out_permuted.results)
    /\ order_out.processed = order_out_permuted.processed

\* two orders of points whose cells overlap, and the returned lists differ
\* in their order
C19_Witness ==
    /\ order_out.results # order_out_permuted.results
    /\ \E i \in 1..Len(order_in.fetched), k \in 1..Len(order_in.fetched) :
         /\ i # k
         /\ IdsOf(order_in.fetched[i].results) \cap IdsOf(order_in.fetched[k].results) # {}

\* C20: an attempt of safe_request that receives HTTP 400 or 403 is the last
\* request of the call, no sleep follows it, and the call returns None
C20_ClientErrorAborts ==
    \A i \in 1..Len(sr_attempts) :
        sr_attempts[i].status \in {400, 403} =>
            /\ i = Len(sr_attempts)
            /\ sr_attempts[i].slept = 0
            /\ sr_pc = "done"
            /\ sr_result = "None"

\* a call that received 403 on its second attempt, with an attempt left
C20_Witness ==
    /\ sr_pc = "done"
    /\ Len(sr_attempts) = 2
    /\ sr_attempts[2].status = 403
    /\ sr_attempts[1].slept > 0
    /\ Len(sr_attempts) < sr_args.retries

\* the outcomes of an attempt that safe_request answers with a retry
TransientOutcomes == {429, 500, RequestException}

\* C21: a call of safe_request makes at most `retries` requests; an attempt
\* that ends in 429, a status >= 500 or an exception is followed by another
\* attempt while attempts remain; the first 200 ends the call with the parsed
\* body and no request follows it; the call returns None when all `retries`
\* attempts have failed
C21_BoundedRetry ==
    /\ Len(sr_attempts) <= sr_args.retries
    /\ \A i \in 1..Len(sr_attempts) :
         sr_attempts[i].status = 200 =>
             i = Len(sr_attempts) /\ sr_pc = "done" /\ sr_result = "json"
    /\ (sr_pc = "done" /\ sr_result = "json") =>
         sr_attempts # <<>> /\ sr_attempts[Len(sr_attempts)].status = 200
    /\ (sr_pc = "done" /\ sr_attempts # <<>>
          /\ sr_attempts[Len(sr_attempts)].status \in TransientOutcomes) =>
         Len(sr_attempts) = sr_args.retries /\ sr_result = "None"
    /\ (sr_pc = "done" /\ Len(sr_attempts) = sr_args.retries
          /\ \A i \in 1..Len(sr_attempts) : sr_attempts[i].status # 200) =>
         sr_result = "None"

\* a call that got its body on the last attempt it was allowed, after a 429
\* and an exception
C21_Witness ==
    /\ sr_pc = "done" /\ sr_result = "json"
    /\ sr_args.retries = 3
    /\ Len(sr_attempts) = 3
    /\ sr_attempts[1].status = 429
    /\ sr_attempts[2].status = RequestException

\* the attempts of the running safe_request call that were followed by a
\* backoff sleep
SleptAfter(i) == ~RequestSucceeds(sr_attempts[i].status) /\ ~RequestAborts(sr_attempts[i].status)

C28_PermanentErrorsNotRetried ==
    /\ \A i \in 1..Len(api_attempts) :
         api_attempts[i].outcome
             \in {"INVALID_REQUEST", "REQUEST_DENIED", "HTTP 400", "HTTP 403"} =>
             i = Len(api_attempts) /\ api_pc = "done" /\ api_result = "None"
    /\ Len(api_attempts) <= MAX_RETRIES
    /\ \A i \in 1..Len(api_attempts) :
         api_attempts[i].outcome \in {"OK", "ZERO_RESULTS"} =>
             i = Len(api_attempts) /\ api_pc = "done"
               /\ api_result = api_attempts[i].outcome

\* the distance of the outermost returned point from the center, half metres
OutermostDistance ==
    IF gen_out.rings = {} THEN 0
    ELSE CHOOSE d \in {p.distance_from_center : p \in gen_out.rings} :
           \A p \in gen_out.rings : p.distance_from_center <= d

\* C23 as stated: for r > 0 the returned set contains the exact center
\* (center_lat, center_lon) that was passed in
C23_ExactCenterReturned ==
    (gen_in.called /\ gen_in.search_radius_meters > 0) =>
        gen_out.center = <<gen_in.center_lat, gen_in.center_lon>>

\* C23 amended: for r > 0 the returned set contains the center with each
\* coordinate rounded to six decimals: a multiple of 1e-6 at most 0.5e-6
\* away from the coordinate passed in
C23_RoundedCenterReturned ==
    (gen_in.called /\ gen_in.search_radius_meters > 0) =>
        /\ Len(gen_out.center) = 2
        /\ gen_out.center[1] % 10 = 0
        /\ gen_out.center[2] % 10 = 0
        /\ gen_out.center[1] - gen_in.center_lat \in -5..5
        /\ gen_out.center[2] - gen_in.center_lon \in -5..5

\* a call with a center of seven decimals, west of Greenwich
C23_Witness ==
    /\ gen_in.called
    /\ gen_in.search_radius_meters > 0
    /\ gen_in.center_lat % 10 # 0
    /\ gen_in.center_lon < 0 /\ gen_in.center_lon % 10 # 0
    /\ gen_out.center # <<gen_in.center_lat, gen_in.center_lon>>

\* C24 as stated: for r > 0 every returned point lies within R + r of the
\* center
C24_OvershootWithinCellRadius ==
    (gen_in.called /\ gen_in.search_radius_meters > 0) =>
        \A p \in gen_out.rings :
            p.distance_from_center
                <= 2 * (gen_in.city_radius_meters + gen_in.search_radius_meters)

\* C24 amended: for r > 0 and R >= 0 every returned point lies within
\* R + 1.5 r of the center, one ring step beyond the coverage radius
C24_OvershootWithinStep ==
    (gen_in.called /\ gen_in.search_radius_meters > 0
       /\ gen_in.city_radius_meters >= 0) =>
        \A p \in gen_out.rings :
            p.distance_from_center
                <= 2 * gen_in.city_radius_meters + 3 * gen_in.search_radius_meters

\* the app's coverage radius with a cell radius of 700 m: the outermost ring
\* is more than R + r from the center
C24_Witness ==
    /\ gen_in.called
    /\ gen_in.city_radius_meters = 15000
    /\ gen_in.search_radius_meters = 700
    /\ OutermostDistance
         > 2 * (gen_in.city_radius_meters + gen_in.search_radius_meters)

\* C25: with a cell radius of zero or less generate_grid_points returns no
\* point, the center included; get_businesses then starts no grid search and
\* no grid fetch for the keyword, and the keyword's list stays the direct
\* results
C25_NoGridForNonPositiveRadius ==
    (pc # "idle" /\ grid_cell_radius_km <= 0) =>
        /\ \A n \in 1..MaxGridPoints : GridPointsFor(grid_cell_radius_km, n) = <<>>
        /\ ~InGridSearch
        /\ grid_points = <<>>
        /\ grid_fetches = 0
        /\ pc = "accumulate" =>
             /\ Len(all_page_results) = direct_count
             /\ \A k \in 1..Len(page_origin) :
                  page_origin[k].src \in {"direct", "direct, geocoding failed"}

\* a sparse keyword of a call with radius 0 whose location was geocoded: the
\* generator was called, and the direct results go on to the pool
C25_Witness ==
    /\ pc = "accumulate"
    /\ grid_cell_radius_km = 0
    /\ geocode_requests = 1
    /\ all_page_results # <<>>
    /\ \A k \in 1..Len(page_origin) : page_origin[k].src = "direct"

\* C27: a call of get_coordinates makes one request; it returns the
\* coordinates of the first result when the response status is OK and there
\* is a result, and in every other case (another status, OK without results,
\* an HTTP error, a network exception) it returns (None, None); it never
\* raises
C27_SingleRequestNullPairOnFailure ==
    /\ geo_requests <= 1
    /\ geo_pc = "done" =>
         /\ geo_requests = 1
         /\ geo_result.kind # "raised"
         /\ IF geo_response.kind = "body" /\ geo_response.status = "OK"
                 /\ Len(geo_response.results) >= 1
              THEN geo_result = [kind |-> "pair", lat |-> geo_response.results[1].lat,
                                 lng |-> geo_response.results[1].lng]
              ELSE geo_result = GeoNonePair

\* a second call, answered with status OK and an empty result list
C27_Witness ==
    /\ geo_pc = "done"
    /\ geo_calls = 2
    /\ geo_response.kind = "body"
    /\ geo_response.status = "OK"
    /\ geo_response.results = <<>>
    /\ geo_result = GeoNonePair

\* C29: while perform_grid_search runs and when it returns, the session set
\* is the set at the start of the call united with the place_ids of the list
\* it has built; the merge of a grid point removes nothing, and a point whose
\* fetch failed, was empty or returned only known places leaves the set as
\* it was
C29_GridSearchSetEffect ==
    /\ [](InGridSearch =>
            processed_businesses = grid_processed_before \cup IdsOf(all_new_grid_results))
    /\ [][(pc = "fetch" /\ pc' = "grid") =>
            /\ processed_businesses \subseteq processed_businesses'
            /\ (fetch_none \/ IdsOf(all_results_this_run) \subseteq processed_businesses)
                 => processed_businesses' = processed_businesses]_vars

\* a grid search has returned that started on a non-empty session set, met a
\* failed point, and enlarged the set at another point
C29_Witness ==
    /\ GridSearchDone
    /\ grid_processed_before # {}
    /\ grid_failures >= 1
    /\ processed_businesses # grid_processed_before

\* C30: no step of get_businesses or of perform_grid_search, and no start of
\* a further get_businesses call, takes a place_id out of the session set
C30_ProcessedSetOnlyGrows ==
    [][processed_businesses \subseteq processed_businesses']_vars

\* a second call of the session has added to the ids the first call left
C30_Witness ==
    /\ calls = 2
    /\ pc # "idle"
    /\ processed_at_start # {}
    /\ processed_at_start \subseteq processed_businesses
    /\ processed_businesses # processed_at_start

\* C31: a candidate whose place_id is in the session set or was emitted
\* earlier in the industry block gets no details lookup and no lead; a
\* candidate that survives gets a lead, and a details lookup is made for it
\* exactly when its record lacks the phone or the website field
C31_DedupBeforeEnrichment ==
    [][(pc = "process" /\ place_i' = place_i + 1) =>
         LET place == all_results_for_industry_and_variants[place_i]
         IN IF \/ place.place_id \in processed_businesses
               \/ place.place_id \in ids_added_this_industry_block
              THEN /\ last_details' = "not new"
                   /\ businesses' = businesses
              ELSE /\ Len(businesses') = Len(businesses) + 1
                   /\ businesses'[Len(businesses')].place_id = place.place_id
                   /\ (last_details' \in {"ok", "failed"})
                        <=> (~place.has_phone \/ ~place.has_website)
                   /\ (last_details' = "not needed")
                        <=> (place.has_phone /\ place.has_website)]_vars

\* a place whose record has a website but no phone was emitted in this
\* industry block, and a candidate that follows its own copy was skipped
C31_Witness ==
    /\ pc = "process" /\ place_i > 2
    /\ last_details = "not new"
    /\ all_results_for_industry_and_variants[place_i - 1].place_id
         = all_results_for_industry_and_variants[place_i - 2].place_id
    /\ all_results_for_industry_and_variants[place_i - 1].place_id
         \in ids_added_this_industry_block
    /\ all_results_for_industry_and_variants[place_i - 1].has_website
    /\ ~all_results_for_industry_and_variants[place_i - 1].has_phone

\* C33: a call of get_businesses with an empty industry list, an empty search
\* target or a search target that is neither a string nor a list starts no
\* search, lookup, geocoding or grid fetch, returns the empty list and leaves
\* the session set as it was
C33_InvalidInputRejected ==
    /\ [](/\ pc # "idle"
          /\ \/ industries = <<>>
             \/ search_target.locs = <<>>
             \/ search_target.kind \notin {"str", "list"}
          => /\ pc = "rejected"
             /\ businesses = <<>>
             /\ attempted = {}
             /\ page_requests = <<>> /\ f_requests = <<>>
             /\ geocode_requests = 0 /\ grid_fetches = 0
             /\ processed_businesses = processed_at_start)
    /\ [][pc = "rejected" =>
            /\ pc' = "idle"
            /\ processed_businesses' = processed_businesses
            /\ returned_ids' = returned_ids
            /\ hits' = hits]_vars

\* a second call of the session, on a non-empty session set, with industries
\* and a non-empty target that is neither a string nor a list
C33_Witness ==
    /\ pc = "rejected"
    /\ calls = 2
    /\ processed_businesses # {}
    /\ industries # <<>>
    /\ search_target.locs # <<>>

\* unit u = <<location, industry, keyword variant>> comes before unit v in
\* the nesting of the loops
UnitBefore(u, v) ==
    \/ u[1] < v[1]
    \/ u[1] = v[1] /\ u[2] < v[2]
    \/ u[1] = v[1] /\ u[2] = v[2] /\ u[3] < v[3]

\* C32: the searches of get_businesses start in the nesting location,
\* industry, keyword variant, the original industry keyword being the first
\* variant; a keyword's direct page requests all come before its geocoding
\* request and that before its grid-point fetches; details lookups are made
\* only when the searches of all variants of the industry are over
C32_RequestOrder ==
    /\ [](pc \in {"keyword", "paginate", "fallback", "grid", "fetch", "accumulate"} =>
            search_keywords # <<>> /\ search_keywords[1] = industries[ind_i])
    /\ [](pc \in {"paginate", "fallback"} => geocode_requests = 0 /\ grid_fetches = 0)
    /\ [](pc = "process" =>
            /\ kw_i > Len(search_keywords)
            /\ page_requests = <<>> /\ f_requests = <<>>
            /\ geocode_requests = 0 /\ grid_fetches = 0)
    /\ [][/\ \A u \in attempted' \ attempted : \A v \in attempted : UnitBefore(v, u)
          /\ attempted' # {} => Cardinality(attempted' \ attempted) <= 1
          /\ (page_requests' # page_requests /\ page_requests' # <<>>) =>
                geocode_requests = 0 /\ grid_fetches = 0
          /\ geocode_requests' > geocode_requests =>
                grid_fetches = 0 /\ page_requests' = page_requests
          /\ grid_fetches' > grid_fetches =>
                geocode_requests' = 1 /\ page_requests' = page_requests]_vars

\* a details lookup was made for an industry with a synonym, in whose pool
\* are a direct result and a grid result
C32_Witness ==
    /\ pc = "process" /\ place_i > 1
    /\ last_details \in {"ok", "failed"}
    /\ Len(search_keywords) = 2
    /\ \E a \in DOMAIN pool_origin, b \in DOMAIN pool_origin :
         pool_origin[a].src = "direct" /\ pool_origin[b].src = "grid"

\* the rings of the returned points
RingsOut == {p.ring : p \in gen_out.rings}

\* the indices of the returned points of ring i
PointsOnRing(i) == {p.j : p \in {q \in gen_out.rings : q.ring = i}}

\* C34: for r > 0 and R >= 0, with step = 1.5 r, the rings generated are
\* rings 1 to ceil(R / step), ring i lies i * step from the center, and each
\* ring carries the points of n >= 6 evenly spaced bearings j * 360 / n,
\* j = 0 .. n - 1
C34_RingStructure ==
    (gen_in.called /\ gen_in.search_radius_meters > 0
       /\ gen_in.city_radius_meters >= 0) =>
        /\ \E n \in 0..(2 * gen_in.city_radius_meters) :
             /\ RingsOut = 1..n
             /\ n * 3 * gen_in.search_radius_meters >= 2 * gen_in.city_radius_meters
             /\ (n - 1) * 3 * gen_in.search_radius_meters < 2 * gen_in.city_radius_meters
        /\ \A p \in gen_out.rings :
             p.distance_from_center = p.ring * 3 * gen_in.search_radius_meters
        /\ \A i \in RingsOut :
             /\ Cardinality(PointsOnRing(i)) >= 6
             /\ PointsOnRing(i) = 0..(Cardinality(PointsOnRing(i)) - 1)

\* a call with the app's coverage radius and a cell radius of 1 km: ten
\* rings, the tenth at 15000 m
C34_Witness ==
    /\ gen_in.called
    /\ gen_in.city_radius_meters = 15000
    /\ gen_in.search_radius_meters = 1000
    /\ RingsOut = 1..10
    /\ \E p \in gen_out.rings : p.ring = 10 /\ p.distance_from_center = 30000

\* number of entries of the sequence s equal to x
Count(s, x) == Cardinality({k \in 1..Len(s) : s[k] = x})

AppendedThisPass == SubSeq(sheet_rows, sheet_before + 1, Len(sheet_rows))

\* retry_failed_rows is between its copy of the queue and its return
InRetryPass == rq_pc \in {"connect", "loop", "append"}

\* C36: when retry_failed_rows has gone through its loop on a sheet, every
\* row of the queue it started on has been appended once and is not queued,
\* or has not been appended and is queued once; the queue holds no other row
C36_RetryQueueConservation ==
    (rq_pc = "done" /\ sheet = "sheet") =>
        /\ \A row \in Range(queue_before) :
             \/ Count(AppendedThisPass, row) = 1 /\ Count(failed_rows, row) = 0
             \/ Count(AppendedThisPass, row) = 0 /\ Count(failed_rows, row) = 1
        /\ Range(failed_rows) \subseteq Range(queue_before)
        /\ Range(AppendedThisPass) \subseteq Range(queue_before)
        /\ success_count = Len(AppendedThisPass)

\* a pass over two rows of which one was appended and the other failed again
C36_Witness ==
    /\ rq_pc = "done" /\ sheet = "sheet"
    /\ Len(queue_before) = 2
    /\ Len(AppendedThisPass) = 1
    /\ Len(failed_rows) = 1

\* C37: when connect_to_google_sheets returned None, retry_failed_rows
\* returns with failed_rows holding the rows it held at the call, in the same
\* order, and no row was handed to safe_append or appended
C37_NoSheetNoChange ==
    (rq_pc = "done" /\ sheet = "None") =>
        /\ failed_rows = queue_before
        /\ Len(sheet_rows) = sheet_before
        /\ sa_pc = "idle"
        /\ success_count = 0

\* a second pass, on two rows, found no sheet
C37_Witness ==
    /\ rq_pc = "done" /\ sheet = "None"
    /\ rq_calls = 2
    /\ Len(queue_before) = 2

\* C38: at every point of a retry_failed_rows call, every row of the queue
\* it started on that has not been appended since is in failed_rows.json
C38_QueueDurable ==
    InRetryPass =>
        \A row \in Range(queue_before) :
            Count(AppendedThisPass, row) = 0 => row \in Range(failed_rows_json)

\* the number of backoff sleeps of the safe_request call
SafeRequestSleeps == Cardinality({i \in 1..Len(sr_attempts) : sr_attempts[i].slept > 0})

\* the number of backoff sleeps of the make_api_request_with_retry call
ApiRequestSleeps == Cardinality({i \in 1..Len(api_attempts) : api_attempts[i].slept > 0})

\* safe_request has used up its attempts: each of them failed in a way that
\* is retried
SafeRequestExhausted ==
    /\ sr_pc = "done"
    /\ sr_attempts # <<>>
    /\ Len(sr_attempts) = sr_args.retries
    /\ \A i \in 1..Len(sr_attempts) : SleptAfter(i)

\* make_api_request_with_retry has used up its attempts
ApiRequestExhausted ==
    /\ api_pc = "done"
    /\ Len(api_attempts) = MAX_RETRIES
    /\ ~ApiReturnsData(api_attempts[MAX_RETRIES].outcome)
    /\ ~ApiReturnsNone(api_attempts[MAX_RETRIES].outcome)

\* the part of C39 about make_api_request_with_retry, which holds on its own
ApiNoSleepAfterFinalAttempt ==
    ApiRequestExhausted =>
        /\ ApiRequestSleeps = MAX_RETRIES - 1
        /\ api_attempts[MAX_RETRIES].slept = 0

\* C39: a call of safe_request or of make_api_request_with_retry that uses up
\* its attempts has slept once less than it made attempts: after every
\* attempt but the last
C39_NoSleepAfterFinalAttempt ==
    /\ SafeRequestExhausted =>
         /\ SafeRequestSleeps = Len(sr_attempts) - 1
         /\ sr_attempts[Len(sr_attempts)].slept = 0
    /\ ApiNoSleepAfterFinalAttempt

====
